---- MODULE Spec2Model ----
(***************************************************************************)
(* gif2vid: the frame compositor of src/gif-decoder.ts (decodeGif).        *)
(*                                                                         *)
(* decodeGif walks the frames of a parsed GIF in index order.  It keeps    *)
(* one RGBA canvas, applies the previous frame's disposal code to it,      *)
(* saves a copy of it when the current frame's disposal code is 3, lets    *)
(* the parser blit the current frame onto it and pushes a copy of it,      *)
(* together with the frame's delay in milliseconds, onto the output.       *)
(*                                                                         *)
(* Typed arrays are modelled as heap objects: every `new Uint8Array(...)`  *)
(* allocates a fresh buffer, and the program's variables hold buffer ids.  *)
(* A buffer is a function from the byte indices 0 .. length-1 to bytes.    *)
(***************************************************************************)
EXTENDS Integers, Sequences, FiniteSets, TLC

\* ------------------------------------------------------------------ bounds

\* The largest frame count a parser of the model reports.
MaxFrames == 3

\* The largest frame count of a decode that is run a second time.
MaxRerunFrames == 2

\* The conversion requests the example server gets.
MaxRequests == 2

\* How often the example server's clock advances.
MaxAdvances == 3

\* The number of messages the main thread sends to the web worker.
MaxMessages == 3

\* The largest id the main thread puts on a message.
MaxId == 2

\* The longest run of characters between the beginning and the end of a
\* requested file name.
MaxDigits == 2

\* ------------------------------------------------------- values of the code

\* JavaScript's null, for previousCanvasBuffer; buffer ids start at 1.
Null == 0

\* A field that is absent (JavaScript's undefined) is the empty sequence, a
\* field holding the number d is <<d>>.
Undefined == <<>>

Num(d) == <<d>>

\* `v || dflt` of JavaScript on a number or undefined: the left operand
\* unless it is falsy (undefined or 0).
JsOr(v, dflt) == IF v = Undefined \/ v = Num(0) THEN dflt ELSE v[1]

\* One byte of opaque white, written four times per pixel by disposal 2.
White == 255

\* The byte an untouched `new Uint8Array(n)` holds, and that the
\* initialisation loop writes again.
Transparent == 0

\* The delay, in centiseconds, the code assumes when the parser gives none.
DefaultDelay == 10

\* Centiseconds to milliseconds.
MsPerCs == 10

\* Bytes per pixel (R, G, B, A).
BytesPerPixel == 4

\* ------------------------------------------------------- the parser (input)

\* The canvases of the model: <<width, height>>.
CanvasDims == { <<3, 2>> }

\* The raw delays a frame may carry: absent, 0, 1, 5 and the largest value of
\* the GIF format's 16-bit field.
RawDelays == { Undefined, Num(0), Num(1), Num(5), Num(65535) }

\* The disposal codes of the GIF format that the code names.
Disposals == 0 .. 3

\* The frame rectangles of a canvas of w x h pixels: the whole canvas, its
\* top-left pixel, a rectangle in the last column that runs over the right
\* and the bottom edge, and one wholly outside the canvas.
Rects(w, h) ==
    { [x |-> 0, y |-> 0, width |-> w, height |-> h],
      [x |-> 0, y |-> 0, width |-> 1, height |-> 1],
      [x |-> w - 1, y |-> 0, width |-> 2, height |-> h + 1],
      [x |-> w, y |-> h, width |-> 1, height |-> 1] }

FrameInfoOf(rect, delay, disposal) ==
    [x |-> Num(rect.x), y |-> Num(rect.y), width |-> rect.width,
     height |-> rect.height, delay |-> delay, disposal |-> disposal]

\* Frame descriptors that vary in geometry and disposal (no delay given).
GeometryInfos(w, h) ==
    { FrameInfoOf(r, Undefined, d) : r \in Rects(w, h), d \in Disposals }

\* Frame descriptors that vary in delay (whole-canvas frames, kept in place).
DelayInfos(w, h) ==
    { FrameInfoOf([x |-> 0, y |-> 0, width |-> w, height |-> h], dl, 1) :
        dl \in RawDelays }

SeqsOf(S, n) == [1 .. n -> S]

\* The parser call that fails, if any: the constructor, frameInfo(at) or the
\* blit of frame `at`.  The record is also the error the call throws.
NoFail == [op |-> "none", at |-> 0]

FailPoints(n) ==
    { [op |-> "construct", at |-> 0] }
    \cup { [op |-> o, at |-> k] : o \in {"frameInfo", "blit"}, k \in 0 .. n - 1 }

\* A parser: info[k + 1] is what frameInfo(k) returns.
ReaderOf(dim, n, f) ==
    [width |-> dim[1], height |-> dim[2], numFrames |-> n, info |-> f,
     fail |-> NoFail]

\* The parsers of up to maxN frames: of every canvas and frame count, those
\* whose frames vary in geometry and disposal, those whose frames vary in
\* delay, and of the latter those one of whose calls fails.
IsReaderUpTo(r, maxN) ==
    \E dim \in CanvasDims, n \in 0 .. maxN :
        \/ \E f \in SeqsOf(GeometryInfos(dim[1], dim[2]), n) :
              r = ReaderOf(dim, n, f)
        \/ \E f \in SeqsOf(DelayInfos(dim[1], dim[2]), n) :
              r = ReaderOf(dim, n, f)
        \/ \E f \in SeqsOf(DelayInfos(dim[1], dim[2]), n) :
              \E fl \in FailPoints(n) :
                  r = [ReaderOf(dim, n, f) EXCEPT !.fail = fl]

\* The parsers of the model.
IsReader(r) == IsReaderUpTo(r, MaxFrames)

\* -------------------------------------------------------------- the state

VARIABLES
    reader,                \* the GifReader: width, height, numFrames, info, fail
    heap,                  \* heap[id]: the bytes of typed array id
    canvasBuffer,          \* id of the canvas
    previousCanvasBuffer,  \* id of the disposal-3 snapshot, or Null
    frames,                \* the output: records data (an id), delay, height, width
    i,                     \* the loop index
    frameInfo,             \* reader.frameInfo(i) of the current iteration
    pc,                    \* the position in decodeGif
    result,                \* the returned value, <<>> until decodeGif returns
    thrown,                \* the error decodeGif threw, <<>> while it has thrown none
    handed,                \* history: handed[k+1] = the canvas passed to the blit of frame k
    blitted,               \* history: blitted[k+1] = the canvas as the blit of frame k left it
    written,               \* history: the frame index + 1 whose buffer the caller wrote, or 0
    trace,                 \* history: the parser calls and steps of the call, in order
    run,                   \* 1 in the first call of decodeGif, 2 in the second
    first,                 \* history: the first call's parser and outcome, <<>> in the first call
    other,                 \* the locals of the invocation that is not running, <<>> if there is none
    now,                   \* example server: the clock, what Date.now() returns
    advances,              \* example server: how often the clock has advanced
    reqs,                  \* example server: reqs[r] is request r's handler and cleanup timer
    disk,                  \* example server: the files of /tmp, records path and by (the writer)
    workerPc,              \* web worker: "loading" until its script has run, then "listening"
    requests,              \* web worker: requests[m] is the listener invocation for message m
    posted,                \* web worker: the messages it posted to the main thread, in order
    get,                   \* video route: the GET handler invocation in progress or last answered
    gif,                   \* history: the bytes of the GIF file the caller supplies
    memory,                \* memory[id]: the bytes of ArrayBuffer id
    gifBuffer,             \* the argument of decodeGif: its kind and the memory it views
    uint8Array             \* the Uint8Array the parser is constructed over

\* The web worker's state.
workerVars == <<workerPc, requests, posted>>

\* The example server's state, the web worker's and the video route's.
serverVars == <<now, advances, reqs, disk, workerVars, get>>

\* The argument of decodeGif and what the normalization makes of it.
inputVars == <<gif, memory, gifBuffer, uint8Array>>

\* The state of decodeGif and its callers.
decodeVars == <<reader, heap, canvasBuffer, previousCanvasBuffer, frames, i,
                frameInfo, pc, result, thrown, handed, blitted, written,
                trace, run, first, other>>

vars == <<decodeVars, serverVars, inputVars>>

\* ------------------------------------------------------------ typed arrays

\* Mutant of CanvasLength: three bytes per pixel (RGB without alpha).
CanvasLengthRGB(width, height) == width * height * 3

\* The canvas's length in bytes.
CanvasLength(width, height) == width * height * BytesPerPixel

\* new Uint8Array(n): n zero bytes.
ZeroBuffer(n) == [b \in 0 .. n - 1 |-> 0]

\* Mutant of InitCanvas: the canvas cleared to opaque black (alpha 255).
InitCanvasOpaque(buf) ==
    [b \in DOMAIN buf |-> IF b % 4 = 3 THEN 255 ELSE Transparent]

\* The initialisation loop of the canvas: every pixel's four bytes set to 0.
InitCanvas(buf) ==
    [b \in DOMAIN buf |-> Transparent]

\* new Uint8Array(typedArray): the bytes of a fresh buffer holding a copy.
CopyOf(buf) == [b \in DOMAIN buf |-> buf[b]]

\* The byte index of pixel (x, y)'s red byte in a canvas `width` pixels wide.
Idx(x, y, width) == (y * width + x) * BytesPerPixel

\* The bytes of `buf` after `buf[k] = v` for every k of `indices`: a typed
\* array ignores a write at an index it does not have.
WriteBytes(buf, indices, v) ==
    [b \in DOMAIN buf |-> IF b \in indices THEN v ELSE buf[b]]

\* new Uint8Array(heap[src]): a fresh typed array holding a copy of src's
\* bytes; the id it gets and the heap it leaves.
NewUint8Array(src) ==
    [id |-> Len(heap) + 1, heap |-> Append(heap, CopyOf(heap[src]))]

\* Mutant of AllocCanvas: one canvas kept at module level, allocated by the
\* first call (the heap's first object) and used again as it is by every
\* later call.
AllocCanvasCached ==
    IF heap # << >>
    THEN [id |-> 1, heap |-> heap]
    ELSE [id |-> Len(heap) + 1,
          heap |-> Append(heap, InitCanvas(ZeroBuffer(
                       CanvasLength(reader.width, reader.height))))]

\* The canvas of a call: new Uint8Array(width * height * 4), cleared; the id
\* it gets and the heap it leaves.
AllocCanvas ==
    [id |-> Len(heap) + 1,
     heap |-> Append(heap, InitCanvas(ZeroBuffer(
                  CanvasLength(reader.width, reader.height))))]

\* Mutant of SavedCanvas: the canvas itself kept as the snapshot, not a copy.
SavedCanvasView == [id |-> canvasBuffer, heap |-> heap]

\* Mutant of SavedCanvas: the snapshot captured at the top of the iteration,
\* before the previous frame's disposal is applied: a copy of the canvas as
\* the previous blit left it.
SavedCanvasBeforeDisposal ==
    [id |-> Len(heap) + 1,
     heap |-> Append(heap, IF i > 0 THEN CopyOf(blitted[i])
                           ELSE CopyOf(heap[canvasBuffer]))]

\* The snapshot of iteration i: new Uint8Array(canvasBuffer).
SavedCanvas == NewUint8Array(canvasBuffer)

\* Mutant of PixelData: the canvas itself pushed, not a copy of it.
PixelDataView == [id |-> canvasBuffer, heap |-> heap]

\* Mutant of PixelData: one output buffer allocated for the first frame and
\* filled again (pixelData.set(canvasBuffer)) for every later frame.
PixelDataReused ==
    IF frames = << >>
    THEN NewUint8Array(canvasBuffer)
    ELSE [id |-> frames[1].data,
          heap |-> [heap EXCEPT ![frames[1].data] = CopyOf(heap[canvasBuffer])]]

\* The emitted buffer of iteration i: new Uint8Array(canvasBuffer).
PixelData == NewUint8Array(canvasBuffer)

\* Mutant of Push: frames.unshift(e).
Unshift(seq, e) == << e >> \o seq

\* frames.push(e).
Push(seq, e) == Append(seq, e)

\* --------------------------------------------------------------- disposal

\* Mutant of PrevFrameInfo: the current frame's descriptor, frameInfo(i).
CurrentFrameInfo == reader.info[i + 1]

\* reader.frameInfo(i - 1) of the current iteration.
PrevFrameInfo == reader.info[i]

\* Mutant of FillPixels: the outer loop without its `y < height` test.
FillPixelsUnclampedY(prev, width, height) ==
    LET frameX == JsOr(prev.x, 0)
        frameY == JsOr(prev.y, 0)
        frameWidth == prev.width
        frameHeight == prev.height
    IN  { p \in (frameX .. frameX + frameWidth - 1)
                  \X (frameY .. frameY + frameHeight - 1) :
            p[1] < width }

\* Mutant of FillPixels: the inner loop without its `x < width` test.
FillPixelsUnclampedX(prev, width, height) ==
    LET frameX == JsOr(prev.x, 0)
        frameY == JsOr(prev.y, 0)
        frameWidth == prev.width
        frameHeight == prev.height
    IN  { p \in (frameX .. frameX + frameWidth - 1)
                  \X (frameY .. frameY + frameHeight - 1) :
            p[2] < height }

\* The pixels the two loops of disposal 2 visit: the rows frameY ..
\* frameY + frameHeight - 1 below `height`, and in each the columns frameX ..
\* frameX + frameWidth - 1 below `width`.
FillPixels(prev, width, height) ==
    LET frameX == JsOr(prev.x, 0)
        frameY == JsOr(prev.y, 0)
        frameWidth == prev.width
        frameHeight == prev.height
    IN  { p \in (frameX .. frameX + frameWidth - 1)
                  \X (frameY .. frameY + frameHeight - 1) :
            p[2] < height /\ p[1] < width }

\* Mutant of RestoreBackground: the visited pixels cleared to transparent
\* (0, 0, 0, 0), the background of a GIF without a background colour.
RestoreBackgroundTransparent(buf, prev, width, height) ==
    LET indices == UNION { LET idx == Idx(p[1], p[2], width)
                           IN  idx .. idx + 3 :
                           p \in FillPixels(prev, width, height) }
    IN  WriteBytes(buf, indices, Transparent)

\* The canvas bytes after the loops of disposal 2: the four bytes of every
\* visited pixel set to 255.
RestoreBackground(buf, prev, width, height) ==
    LET indices == UNION { LET idx == Idx(p[1], p[2], width)
                           IN  idx .. idx + 3 :
                           p \in FillPixels(prev, width, height) }
    IN  WriteBytes(buf, indices, White)

\* canvasBuffer.set(previousCanvasBuffer): the snapshot's bytes copied over
\* the canvas's, from index 0.
SetFrom(buf, src) ==
    [b \in DOMAIN buf |-> IF b \in DOMAIN src THEN src[b] ELSE buf[b]]

\* Mutant of Disposed: the snapshot restored whenever one exists, whatever
\* the previous frame's disposal code (`else if (previousCanvasBuffer)`).
DisposedAnySnapshot(buf, prev) ==
    IF prev.disposal = 2
    THEN RestoreBackground(buf, prev, reader.width, reader.height)
    ELSE IF previousCanvasBuffer # Null
         THEN SetFrom(buf, heap[previousCanvasBuffer])
         ELSE buf

\* Mutant of Disposed: disposal 3 without a snapshot restores an empty
\* canvas.
DisposedNoSnapshotClears(buf, prev) ==
    IF prev.disposal = 2
    THEN RestoreBackground(buf, prev, reader.width, reader.height)
    ELSE IF prev.disposal = 3
         THEN IF previousCanvasBuffer # Null
              THEN SetFrom(buf, heap[previousCanvasBuffer])
              ELSE [b \in DOMAIN buf |-> Transparent]
         ELSE buf

\* Mutant of Disposed: the disposal code compared on its two low bits, so
\* that the reserved codes 6 and 7 are handled as 2 and 3.
DisposedLowBits(buf, prev) ==
    IF prev.disposal % 4 = 2
    THEN RestoreBackground(buf, prev, reader.width, reader.height)
    ELSE IF prev.disposal % 4 = 3 /\ previousCanvasBuffer # Null
         THEN SetFrom(buf, heap[previousCanvasBuffer])
         ELSE buf

\* The canvas bytes after the disposal step of iteration i > 0.
Disposed(buf, prev) ==
    IF prev.disposal = 2
    THEN RestoreBackground(buf, prev, reader.width, reader.height)
    ELSE IF prev.disposal = 3 /\ previousCanvasBuffer # Null
         THEN SetFrom(buf, heap[previousCanvasBuffer])
         ELSE buf

\* ------------------------------------------------------------------- blit

\* The colour frame k's pixels decode to: opaque, and different for every
\* frame and channel.
FrameColor(k) == << 16 * (k + 1), 16 * (k + 1) + 1, 16 * (k + 1) + 2, 255 >>

\* reader.decodeAndBlitFrameRGBA(k, buf): frame k's pixels written over the
\* canvas inside frame k's rectangle, the rest of the canvas left as it is.
BlitFrame(k, buf) ==
    LET f == reader.info[k + 1]
        inside == { p \in (f.x[1] .. f.x[1] + f.width - 1)
                          \X (f.y[1] .. f.y[1] + f.height - 1) :
                      p[1] < reader.width /\ p[2] < reader.height }
    IN  [b \in DOMAIN buf |->
            IF \E p \in inside :
                 b \in Idx(p[1], p[2], reader.width)
                        .. Idx(p[1], p[2], reader.width) + 3
            THEN FrameColor(k)[(b % BytesPerPixel) + 1]
            ELSE buf[b]]

\* ------------------------------------------------------------------- emit

\* Mutant of DelayMs: the centiseconds pushed as they are, not converted.
DelayCs(info) == JsOr(info.delay, DefaultDelay)

\* Mutant of DelayMs: `??` in place of `||`, so a raw delay of 0 stays 0.
DelayMsNullish(info) ==
    (IF info.delay = Undefined THEN DefaultDelay ELSE info.delay[1]) * MsPerCs

\* The delay pushed with a frame: centiseconds, 10 when falsy, times 10.
DelayMs(info) == JsOr(info.delay, DefaultDelay) * MsPerCs

\* The object pushed for a frame.
FrameOf(pixelData, info, height, width) ==
    [data |-> pixelData, delay |-> DelayMs(info), height |-> height,
     width |-> width]

\* ------------------------------------------------------------- the parser

\* new GifReader(uint8Array) throws.
ConstructFails == reader.fail.op = "construct"

\* reader.frameInfo(k) throws: k is no frame index, or the call is the one
\* that fails.
FrameInfoFails(k) ==
    \/ k \notin 0 .. reader.numFrames - 1
    \/ reader.fail = [op |-> "frameInfo", at |-> k]

\* The error reader.frameInfo(k) throws.
FrameInfoError(k) ==
    IF k \notin 0 .. reader.numFrames - 1
    THEN [op |-> "range", at |-> k]
    ELSE reader.fail

\* reader.decodeAndBlitFrameRGBA(k, ...) throws.
BlitFails(k) == reader.fail = [op |-> "blit", at |-> k]

\* ----------------------------------------------------------- control flow

\* Mutant of TakesSnapshot: a snapshot taken only while none is held.
TakesSnapshotOnce == frameInfo.disposal = 3 /\ previousCanvasBuffer = Null

\* Mutant of TakesSnapshot: a snapshot taken in every iteration.
TakesSnapshotAlways == TRUE

\* The test of the snapshot step, frameInfo.disposal === 3.
TakesSnapshot == frameInfo.disposal = 3

\* Mutant of LoopTest: a loop that tests after its first pass (do ... while).
LoopTestAfterBody == i = 0 \/ i < reader.numFrames

\* The loop test, i < numFrames.
LoopTest == i < reader.numFrames

\* Mutant of NextIndex: i += 2.
SkipIndex(k) == k + 2

\* The loop increment, i++.
NextIndex(k) == k + 1

\* Mutant of OnThrow: the error caught and the frames decoded so far
\* returned.
OnThrowPartial(e) ==
    [pc |-> "done", thrown |-> << >>,
     result |-> << [frames |-> frames, height |-> reader.height,
                    width |-> reader.width] >>]

\* An error thrown inside decodeGif, which has no try: the call ends, the
\* error is the caller's, nothing is returned.
OnThrow(e) == [pc |-> "threw", thrown |-> << e >>, result |-> << >>]

\* ------------------------------------------------- the example server

\* The delay of the cleanup timer, 5 * 60 * 1000 ms.
CleanupDelay == 300000

Reqs == 1 .. MaxRequests

\* `gif2vid-${Date.now()}.mp4` at clock t.
FilenameOf(t) == << "gif2vid-", t, ".mp4" >>

\* join('/tmp', filename).
FilepathOf(filename) == << "/tmp", filename >>

\* `/videos/${filename}`, the URL of the response.
VideoUrlOf(filename) == << "/videos/", filename >>

\* A request that has not arrived.
NoRequest ==
    [pc |-> "idle", filename |-> << >>, status |-> 0, videoUrl |-> << >>,
     timerAt |-> 0, route |-> "none", form |-> "none", invoked |-> FALSE,
     wrote |-> FALSE, responses |-> 0, timers |-> 0]

\* The two conversion endpoints: POST /convert of the Express server and
\* POST of the Next.js route.
Routes == { "express", "next" }

\* What a request carries, as the handler of each endpoint sees it.  Express
\* (behind multer's upload.single('gif'), which lets only GIF uploads
\* through to the handler): req.file is absent or a GIF.  Next.js: the body
\* is not form data, or the form has no 'gif' entry, or the entry is a text
\* field, a file of another type, or a GIF file.
FormsOf(route) ==
    IF route = "express"
    THEN { "absent", "gif" }
    ELSE { "unparsable", "absent", "text", "other", "gif" }

\* `/api/video/${filename}` of the Next.js route.
ApiVideoUrlOf(filename) == << "/api/video/", filename >>

\* The handler answers with `status`: res.status(...).json(...) or
\* return NextResponse.json(..., { status }).
Answered(req, to, status) ==
    [req EXCEPT !.pc = to, !.status = status, !.responses = @ + 1]

\* The handler of `route` entered with `form`, up to its first response or
\* to the await of convertGifBuffer.
\* Express: `if (!req.file)` answers 400.  Next.js: a rejected
\* request.formData() lands in the catch (500); `if (!file)` answers 400;
\* `file.type.includes('gif')` throws on a text entry, which has no type,
\* and lands in the catch (500), and answers 400 for a file of another
\* type.
HandlerEntered(route, form) ==
    LET req == [NoRequest EXCEPT !.route = route, !.form = form]
    IN  IF form = "gif"
        THEN [req EXCEPT !.pc = "converting", !.invoked = TRUE]
        ELSE IF route = "next" /\ form \in {"unparsable", "text"}
             THEN Answered(req, "failed", 500)
             ELSE Answered(req, "rejected", 400)

\* The disk after writeFile(path, the MP4 of request r): the file created,
\* or replaced if the path exists.
WriteFile(path, r) ==
    { e \in disk : e.path # path } \cup { [path |-> path, by |-> r] }

\* The disk after a successful unlink(path).
Unlink(path) == { e \in disk : e.path # path }

\* unlink(path) rejects (ENOENT): the path does not exist.
UnlinkFails(path) == \A e \in disk : e.path # path

\* The timers that have been set and have not fired.
Pending == { r \in Reqs : reqs[r].pc = "served" }

\* --------------------------------------------------- the caller's input

\* The input left out of account: the parser is given as it is.
InputParsed ==
    /\ gif = << >>
    /\ memory = << >>
    /\ gifBuffer = << >>
    /\ uint8Array = << >>

\* The bytes a view (buffer, byteOffset, byteLength) shows of memory `mem`.
BytesIn(mem, view) ==
    SubSeq(mem[view.buffer], view.byteOffset + 1,
           view.byteOffset + view.byteLength)

BytesOf(view) == BytesIn(memory, view)

\* The kinds of argument: a Uint8Array, an ArrayBuffer, a Node Buffer, and
\* a typed-array view of another class (Int8Array, Uint8ClampedArray,
\* DataView).
Kinds == { "Uint8Array", "ArrayBuffer", "Buffer", "TypedArray" }

\* gifBuffer instanceof Uint8Array: a Node Buffer is one.
IsUint8Array(b) == b.kind \in { "Uint8Array", "Buffer" }

\* gifBuffer instanceof ArrayBuffer.
IsArrayBuffer(b) == b.kind = "ArrayBuffer"

\* typeof Buffer !== 'undefined' && gifBuffer instanceof Buffer.
IsBuffer(b) == b.kind = "Buffer"

\* gifBuffer.buffer instanceof ArrayBuffer: every view has a buffer, an
\* ArrayBuffer has none.
HasArrayBuffer(b) == b.kind \in { "Uint8Array", "Buffer", "TypedArray" }

\* new Uint8Array(buffer, byteOffset, byteLength): a view, no copy.
NewView(id, off, len) ==
    [kind |-> "Uint8Array", buffer |-> id, byteOffset |-> off,
     byteLength |-> len]

\* Mutant of Normalized: a typed-array view normalized by
\* `new Uint8Array(gifBuffer.buffer)`, without its byteOffset and
\* byteLength.
NormalizedWholeBuffer(b) ==
    IF IsUint8Array(b)
    THEN [uint8Array |-> b, memory |-> memory]
    ELSE IF IsArrayBuffer(b)
    THEN [uint8Array |-> NewView(b.buffer, 0, Len(memory[b.buffer])),
          memory |-> memory]
    ELSE IF IsBuffer(b)
    THEN [uint8Array |-> NewView(Len(memory) + 1, 0, b.byteLength),
          memory |-> Append(memory, BytesOf(b))]
    ELSE IF HasArrayBuffer(b)
    THEN [uint8Array |-> NewView(b.buffer, 0, Len(memory[b.buffer])),
          memory |-> memory]
    ELSE [uint8Array |-> b, memory |-> memory]

\* Lines 29-45: the Uint8Array made of argument b, and the memory after.
\* A Uint8Array is taken as it is; an ArrayBuffer is viewed whole; a Buffer
\* that is no Uint8Array would be copied; another view is viewed again over
\* its own byteOffset and byteLength; anything else is taken as it is.
Normalized(b) ==
    IF IsUint8Array(b)
    THEN [uint8Array |-> b, memory |-> memory]
    ELSE IF IsArrayBuffer(b)
    THEN [uint8Array |-> NewView(b.buffer, 0, Len(memory[b.buffer])),
          memory |-> memory]
    ELSE IF IsBuffer(b)
    THEN [uint8Array |-> NewView(Len(memory) + 1, 0, b.byteLength),
          memory |-> Append(memory, BytesOf(b))]
    ELSE IF HasArrayBuffer(b)
    THEN [uint8Array |-> NewView(b.buffer, b.byteOffset, b.byteLength),
          memory |-> memory]
    ELSE [uint8Array |-> b, memory |-> memory]

\* The frame descriptor a frame byte stands for: its two low bits are the
\* disposal code, a byte below 4 is a frame of the whole canvas and another
\* byte a frame of the top-left pixel.
GifFrameOf(byte, dim) ==
    FrameInfoOf(IF byte < 4
                THEN [x |-> 0, y |-> 0, width |-> dim[1], height |-> dim[2]]
                ELSE [x |-> 0, y |-> 0, width |-> 1, height |-> 1],
                Undefined, byte % 4)

\* new GifReader(bytes): what the parser finds in a byte sequence.  The
\* first byte is the number of frames and every frame has one byte after
\* it; bytes after the last frame are not read; a sequence too short for
\* its frames makes the constructor throw.
ParserOf(bytes) ==
    LET dim == CHOOSE d \in CanvasDims : TRUE
    IN  IF bytes = << >> \/ Len(bytes) < 1 + bytes[1]
        THEN [ReaderOf(dim, 0, << >>) EXCEPT
                 !.fail = [op |-> "construct", at |-> 0]]
        ELSE ReaderOf(dim, bytes[1],
                      [k \in 1 .. bytes[1] |-> GifFrameOf(bytes[1 + k], dim)])

\* The bytes of a frame in the GIF files supplied.
FrameBytes == { 1, 2, 3, 6 }

\* The GIF files supplied: of every frame count, and one cut short.
GifFiles ==
    UNION { { << n >> \o f : f \in [1 .. n -> FrameBytes] } :
              n \in 0 .. MaxRerunFrames }
    \cup { << 2, 1 >> }

\* The bytes around the GIF's in the ArrayBuffer a view shows a part of.
Pads == { << >>, << 2 >> }

\* The GIF bytes g supplied as `kind`, in a new ArrayBuffer with id `id`:
\* the argument and the ArrayBuffer's bytes.
Supplied(kind, lead, trail, g, id) ==
    [gifBuffer |-> [kind |-> kind, buffer |-> id, byteOffset |-> Len(lead),
                    byteLength |-> Len(g)],
     bytes |-> lead \o g \o trail]

\* The ways the GIF bytes g are supplied: as an ArrayBuffer that holds
\* them and nothing else, or as a view of an ArrayBuffer that may hold
\* other bytes before and after them.
InputsOf(g, id) ==
    { Supplied("ArrayBuffer", << >>, << >>, g, id) }
    \cup { Supplied(kind, lead, trail, g, id) :
              kind \in Kinds \ { "ArrayBuffer" },
              lead \in Pads, trail \in Pads }

\* ------------------------------------------------------ the video route

\* A string is the sequence of its characters.
Gif2vidDash == << "g", "i", "f", "2", "v", "i", "d", "-" >>

DotMp4 == << ".", "m", "p", "4" >>

\* The characters \d matches.
Digit == { "0", "1", "2", "3", "4", "5", "6", "7", "8", "9" }

\* The characters `.` does not match.
LineTerminators == { "\n", "\r" }

\* The items of a pattern that matches the characters of `chars` in turn.
Literal(chars) == [k \in 1 .. Len(chars) |-> [kind |-> "char", c |-> chars[k]]]

\* Mutant of FilenamePattern: without the anchor `^`
\* (/gif2vid-\d+\.mp4$/).
FilenamePatternUnanchored ==
    [start |-> FALSE,
     items |-> Literal(Gif2vidDash) \o << [kind |-> "digits", c |-> ""] >>
                   \o Literal(DotMp4),
     end |-> TRUE]

\* Mutant of FilenamePattern: the dot not escaped
\* (/^gif2vid-\d+.mp4$/).
FilenamePatternAnyDot ==
    [start |-> TRUE,
     items |-> Literal(Gif2vidDash)
                   \o << [kind |-> "digits", c |-> ""],
                         [kind |-> "any", c |-> ""] >>
                   \o Literal(Tail(DotMp4)),
     end |-> TRUE]

\* /^gif2vid-\d+\.mp4$/: anchored at both ends, the literal `gif2vid-`,
\* one or more digits, the literal `.mp4`.
FilenamePattern ==
    [start |-> TRUE,
     items |-> Literal(Gif2vidDash) \o << [kind |-> "digits", c |-> ""] >>
                   \o Literal(DotMp4),
     end |-> TRUE]

\* The positions of s (from 1, up to Len(s) + 1) just after a match of
\* `items` that begins at position n.
RECURSIVE MatchFrom(_, _, _)
MatchFrom(items, s, n) ==
    IF items = << >>
    THEN {n}
    ELSE LET item == Head(items)
             rest == Tail(items)
         IN  IF item.kind = "char"
             THEN IF n <= Len(s) /\ s[n] = item.c
                  THEN MatchFrom(rest, s, n + 1)
                  ELSE {}
             ELSE IF item.kind = "any"
             THEN IF n <= Len(s) /\ s[n] \notin LineTerminators
                  THEN MatchFrom(rest, s, n + 1)
                  ELSE {}
             ELSE UNION { MatchFrom(rest, s, e) :
                            e \in { e \in n + 1 .. Len(s) + 1 :
                                      \A j \in n .. e - 1 : s[j] \in Digit } }

\* re.test(s) of a regular expression without flags: some match, from the
\* start of s if the pattern begins with `^`, up to the end of s if it ends
\* with `$`.
RegExpTest(re, s) ==
    \E n \in (IF re.start THEN {1} ELSE 1 .. Len(s) + 1) :
        \E e \in MatchFrom(re.items, s, n) : re.end => e = Len(s) + 1

\* The GET handler before a request.
NoGet == [pc |-> "idle", filename |-> << >>, status |-> 0,
          read |-> << >>, body |-> << >>, answers |-> 0]

\* The beginnings, middles and ends of the file names requested.
NamePrefixes ==
    { Gif2vidDash, << >>, << "x" >> \o Gif2vidDash,
      << ".", ".", "/" >> \o Gif2vidDash,
      << "g", "i", "f", "2", "v", "i", "d" >>,
      << "G", "I", "F", "2", "V", "I", "D", "-" >> }

NameChars == { "0", "7", "a", "/", "." }

NameMiddles == UNION { [1 .. n -> NameChars] : n \in 0 .. MaxDigits }

NameSuffixes ==
    { DotMp4, << >>, << "x", "m", "p", "4" >>, << ".", "m", "p" >>,
      DotMp4 \o << "\n" >>, DotMp4 \o << "/", ".", ".", "/", "x" >>,
      << ".", "m", "p", "4", "4" >> }

\* The file names a client may request.
Filenames ==
    { p \o m \o x : p \in NamePrefixes, m \in NameMiddles, x \in NameSuffixes }

\* The files of /tmp when the route is exercised: videos earlier
\* conversions wrote.
StoredNames ==
    { Gif2vidDash \o << "0" >> \o DotMp4,
      Gif2vidDash \o << "7", "0" >> \o DotMp4 }

\* ------------------------------------------------------- the web worker

\* The messages the main thread sends: message m is the m-th it sends.
Messages == 1 .. MaxMessages

\* The ids the main thread puts on its messages; two messages may carry the
\* same one.
Ids == 1 .. MaxId

\* A message not yet delivered to the listener.
NoMessage == [pc |-> "unsent", id |-> Undefined, outcome |-> "none"]

\* Mutant of IdOf: the id kept in one variable of the worker's module,
\* assigned by every invocation of the listener: the id of the message
\* delivered last.
IdOfLatest(m) ==
    LET progress == SelectSeq(posted, LAMBDA e : e.type = "progress")
    IN  progress[Len(progress)].id

\* `const { id, gifBuffer } = event.data`: the id of message m, a constant of
\* the listener invocation that handles m.
IdOf(m) == requests[m].id

\* self.postMessage({ type: 'ready' }).  The field `by` of a posted message
\* is history: the listener invocation that posted it, 0 for the script.
ReadyMessage == [type |-> "ready", id |-> Undefined, by |-> 0]

\* self.postMessage({ id, type: 'progress', ... }) of the invocation for m,
\* which has just taken `id` from the message.
ProgressMessage(m, id) == [type |-> "progress", id |-> id, by |-> m]

\* self.postMessage({ id, type: 'success', ... }, { transfer }).
SuccessMessage(m) == [type |-> "success", id |-> IdOf(m), by |-> m]

\* self.postMessage({ id, type: 'error', ... }) of the catch block.
ErrorMessage(m) == [type |-> "error", id |-> IdOf(m), by |-> m]

\* The worker before its script has run.
WorkerIdle ==
    /\ workerPc = "loading"
    /\ requests = [m \in Messages |-> NoMessage]
    /\ posted = << >>

\* The server with no request yet.
ServerIdle ==
    /\ now = 0
    /\ advances = 0
    /\ reqs = [r \in Reqs |-> NoRequest]
    /\ disk = {}
    /\ WorkerIdle
    /\ get = NoGet

\* ---------------------------------------------------------------- actions

\* decodeGif called on a GIF that parses to a parser of up to maxN frames.
InitUpTo(maxN) ==
    /\ IsReaderUpTo(reader, maxN)
    /\ heap = << >>
    /\ canvasBuffer = Null
    /\ previousCanvasBuffer = Null
    /\ frames = << >>
    /\ i = 0
    /\ frameInfo = << >>
    /\ pc = "start"
    /\ result = << >>
    /\ thrown = << >>
    /\ handed = << >>
    /\ blitted = << >>
    /\ written = 0
    /\ trace = << >>
    /\ run = 1
    /\ first = << >>
    /\ other = << >>
    /\ ServerIdle
    /\ InputParsed

Init == InitUpTo(MaxFrames)

\* Lines 48-68: the parser constructed, the canvas allocated and cleared, no
\* snapshot, no frame yet.
Construct ==
    /\ pc = "start"
    /\ ~ ConstructFails
    /\ heap' = AllocCanvas.heap
    /\ canvasBuffer' = AllocCanvas.id
    /\ previousCanvasBuffer' = Null
    /\ frames' = << >>
    /\ i' = 0
    /\ pc' = "loop"
    /\ UNCHANGED <<reader, frameInfo, result, thrown, handed, blitted,
                   written, trace, run, first, other, serverVars,
                   inputVars>>

\* Line 48: the parser's constructor throws.
ConstructThrows ==
    /\ pc = "start"
    /\ ConstructFails
    /\ pc' = OnThrow(reader.fail).pc
    /\ thrown' = OnThrow(reader.fail).thrown
    /\ result' = OnThrow(reader.fail).result
    /\ UNCHANGED <<reader, heap, canvasBuffer, previousCanvasBuffer, frames,
                   i, frameInfo, handed, blitted, written, trace, run, first, other,
                   serverVars,
                   inputVars>>

\* Lines 71-72: the loop test passes and frameInfo(i) is read.
LoopEnter ==
    /\ pc = "loop"
    /\ LoopTest
    /\ ~ FrameInfoFails(i)
    /\ frameInfo' = reader.info[i + 1]
    /\ trace' = Append(trace, << "frameInfo", i >>)
    /\ pc' = "dispose"
    /\ UNCHANGED <<reader, heap, canvasBuffer, previousCanvasBuffer, frames,
                   i, result, thrown, handed, blitted, written, run, first, other,
                   serverVars,
                   inputVars>>

\* Lines 71-72: the loop test passes and frameInfo(i) throws.
FrameInfoThrows ==
    /\ pc = "loop"
    /\ LoopTest
    /\ FrameInfoFails(i)
    /\ trace' = Append(trace, << "frameInfo", i >>)
    /\ pc' = OnThrow(FrameInfoError(i)).pc
    /\ thrown' = OnThrow(FrameInfoError(i)).thrown
    /\ result' = OnThrow(FrameInfoError(i)).result
    /\ UNCHANGED <<reader, heap, canvasBuffer, previousCanvasBuffer, frames,
                   i, frameInfo, handed, blitted, written, run, first, other,
                   serverVars,
                   inputVars>>

\* Lines 75-100: the previous frame's descriptor read again and its disposal
\* applied to the canvas; nothing for i = 0.
Dispose ==
    /\ pc = "dispose"
    /\ IF i > 0
       THEN /\ heap' = [heap EXCEPT ![canvasBuffer] =
                           Disposed(heap[canvasBuffer], PrevFrameInfo)]
            /\ trace' = trace \o << << "frameInfo", i - 1 >>,
                                    << "dispose", i - 1 >> >>
       ELSE UNCHANGED <<heap, trace>>
    /\ pc' = "snapshot"
    /\ UNCHANGED <<reader, canvasBuffer, previousCanvasBuffer, frames, i,
                   frameInfo, result, thrown, handed, blitted, written, run,
                   first, other, serverVars,
                   inputVars>>

\* Lines 103-105: the canvas saved when the current frame's disposal is 3.
Snapshot ==
    /\ pc = "snapshot"
    /\ IF TakesSnapshot
       THEN /\ previousCanvasBuffer' = SavedCanvas.id
            /\ heap' = SavedCanvas.heap
            /\ trace' = Append(trace, << "snapshot", i >>)
       ELSE UNCHANGED <<previousCanvasBuffer, heap, trace>>
    /\ pc' = "blit"
    /\ UNCHANGED <<reader, canvasBuffer, frames, i, frameInfo, result,
                   thrown, handed, blitted, written, run, first, other,
                   serverVars,
                   inputVars>>

\* Line 108: the parser blits frame i onto the canvas.
Blit ==
    /\ pc = "blit"
    /\ ~ BlitFails(i)
    /\ heap' = [heap EXCEPT ![canvasBuffer] = BlitFrame(i, heap[canvasBuffer])]
    /\ handed' = Append(handed, heap[canvasBuffer])
    /\ blitted' = Append(blitted, heap'[canvasBuffer])
    /\ trace' = Append(trace, << "blit", i >>)
    /\ pc' = "emit"
    /\ UNCHANGED <<reader, canvasBuffer, previousCanvasBuffer, frames, i,
                   frameInfo, result, thrown, written, run, first, other,
                   serverVars,
                   inputVars>>

\* Line 108: the blit of frame i throws.
BlitThrows ==
    /\ pc = "blit"
    /\ BlitFails(i)
    /\ trace' = Append(trace, << "blit", i >>)
    /\ pc' = OnThrow(reader.fail).pc
    /\ thrown' = OnThrow(reader.fail).thrown
    /\ result' = OnThrow(reader.fail).result
    /\ UNCHANGED <<reader, heap, canvasBuffer, previousCanvasBuffer, frames,
                   i, frameInfo, handed, blitted, written, run, first, other,
                   serverVars,
                   inputVars>>

\* Lines 111-119: a copy of the canvas pushed with the frame's delay and the
\* canvas size, and i++.
Emit ==
    /\ pc = "emit"
    /\ heap' = PixelData.heap
    /\ frames' = Push(frames, FrameOf(PixelData.id, frameInfo,
                                      reader.height, reader.width))
    /\ trace' = Append(trace, << "emit", i >>)
    /\ i' = NextIndex(i)
    /\ pc' = "loop"
    /\ UNCHANGED <<reader, canvasBuffer, previousCanvasBuffer, frameInfo,
                   result, thrown, handed, blitted, written, run, first, other,
                   serverVars,
                   inputVars>>

\* Lines 71, 121-125: the loop test fails and decodeGif returns.
Return ==
    /\ pc = "loop"
    /\ ~ LoopTest
    /\ result' = << [frames |-> frames, height |-> reader.height,
                     width |-> reader.width] >>
    /\ pc' = "done"
    /\ UNCHANGED <<reader, heap, canvasBuffer, previousCanvasBuffer, frames,
                   i, frameInfo, thrown, handed, blitted, written, trace,
                   run, first, other, serverVars,
                   inputVars>>

\* After decodeGif returned, its caller writes one byte of one returned
\* frame's buffer (once), changing the byte it finds there.
CallerWrite ==
    /\ pc = "done"
    /\ written = 0
    /\ \E k \in 1 .. Len(result[1].frames) :
          /\ heap' = [heap EXCEPT ![result[1].frames[k].data] =
                         WriteBytes(@, {0}, (@[0] + 1) % 256)]
          /\ written' = k
    /\ UNCHANGED <<reader, canvasBuffer, previousCanvasBuffer, frames, i,
                   frameInfo, pc, result, thrown, handed, blitted, trace,
                   run, first, other, serverVars,
                   inputVars>>

Next ==
    \/ Construct
    \/ ConstructThrows
    \/ LoopEnter
    \/ FrameInfoThrows
    \/ Dispose
    \/ Snapshot
    \/ Blit
    \/ BlitThrows
    \/ Emit
    \/ Return
    \/ CallerWrite

Spec == Init /\ [][Next]_vars

\* ------------------------------------------------- the compositing loop

\* decodeGif called on a GIF all of whose parser calls return, with frames
\* of every disposal code that lie in the canvas, wholly or in part.
InitLoop ==
    /\ InitUpTo(MaxFrames)
    /\ reader.fail = NoFail
    /\ \A k \in 1 .. reader.numFrames :
          /\ reader.info[k].delay = Undefined
          /\ reader.info[k].x[1] < reader.width

\* The steps of such a call, up to its return.
NextLoop ==
    \/ Construct
    \/ LoopEnter
    \/ Dispose
    \/ Snapshot
    \/ Blit
    \/ Emit
    \/ Return

SpecLoop == InitLoop /\ [][NextLoop]_vars

\* ------------------------------------------------------------ termination

\* decodeGif called on a GIF of whole-canvas frames, any of whose parser
\* calls may be the one that fails.
InitLive ==
    /\ InitUpTo(MaxFrames)
    /\ \A k \in 1 .. reader.numFrames : reader.info[k].disposal = 1

\* The steps of decodeGif itself: Next without the caller's write.
Step ==
    \/ Construct
    \/ ConstructThrows
    \/ LoopEnter
    \/ FrameInfoThrows
    \/ Dispose
    \/ Snapshot
    \/ Blit
    \/ BlitThrows
    \/ Emit
    \/ Return

\* decodeGif is synchronous: once called it runs its next step as long as
\* it has one (every parser call returns or throws).
SpecLive == InitLive /\ [][Step]_vars /\ WF_vars(Step)

\* ------------------------------------------- every disposal code of a GIF

\* The values the three-bit disposal field of a GIF can hold: 0 to 3 are
\* the codes the format names, 4 to 7 are reserved.
DisposalCodes == 0 .. 7

\* Frame descriptors of the top-left pixel, of every disposal code.
CodeInfos ==
    { FrameInfoOf([x |-> 0, y |-> 0, width |-> 1, height |-> 1],
                  Undefined, d) : d \in DisposalCodes }

\* decodeGif entered with a parser none of whose calls fails and whose
\* frames carry any disposal code.
InitCodes ==
    /\ \E dim \in CanvasDims, n \in 0 .. MaxFrames :
          \E f \in SeqsOf(CodeInfos, n) : reader = ReaderOf(dim, n, f)
    /\ heap = << >>
    /\ canvasBuffer = Null
    /\ previousCanvasBuffer = Null
    /\ frames = << >>
    /\ i = 0
    /\ frameInfo = << >>
    /\ pc = "start"
    /\ result = << >>
    /\ thrown = << >>
    /\ handed = << >>
    /\ blitted = << >>
    /\ written = 0
    /\ trace = << >>
    /\ run = 1
    /\ first = << >>
    /\ other = << >>
    /\ ServerIdle
    /\ InputParsed

\* The steps of such a call, up to its return.
NextCodes ==
    \/ Construct
    \/ LoopEnter
    \/ Dispose
    \/ Snapshot
    \/ Blit
    \/ Emit
    \/ Return

SpecCodes == InitCodes /\ [][NextCodes]_vars

\* ------------------------------------------------------------ a second call

\* What a call of decodeGif gave its caller: the error thrown, or the value
\* returned with the bytes of every frame's buffer.
OutcomeOf(res, thr) ==
    [thrown |-> thr,
     value |-> IF res = << >>
               THEN << >>
               ELSE << [frames |-> [k \in 1 .. Len(res[1].frames) |->
                                       [bytes |-> heap[res[1].frames[k].data],
                                        delay |-> res[1].frames[k].delay,
                                        height |-> res[1].frames[k].height,
                                        width |-> res[1].frames[k].width]],
                        height |-> res[1].height,
                        width |-> res[1].width] >>]

\* What the call in progress gave its caller.
Outcome == OutcomeOf(result, thrown)

\* Parser r with the disposal code of its last frame replaced by d.
WithLastDisposal(r, d) ==
    IF r.numFrames = 0
    THEN r
    ELSE [r EXCEPT !.info[r.numFrames].disposal = d]

\* The first call has ended and decodeGif is called again in the same
\* process, on the same GIF or on one that differs in the disposal code of
\* its last frame.  The heap stays; canvasBuffer and previousCanvasBuffer
\* still name the first call's buffers until Construct assigns them.
Rerun ==
    /\ pc \in {"done", "threw"}
    /\ run = 1
    /\ written = 0
    /\ first' = << [reader |-> reader, outcome |-> Outcome, steps |-> trace] >>
    /\ run' = 2
    /\ \E d \in Disposals : reader' = WithLastDisposal(reader, d)
    /\ frames' = << >>
    /\ i' = 0
    /\ frameInfo' = << >>
    /\ pc' = "start"
    /\ result' = << >>
    /\ thrown' = << >>
    /\ handed' = << >>
    /\ blitted' = << >>
    /\ trace' = << >>
    /\ UNCHANGED <<heap, canvasBuffer, previousCanvasBuffer, written, other,
                   serverVars,
                   inputVars>>

InitRerun == InitUpTo(MaxRerunFrames)

NextRerun ==
    \/ Next
    \/ Rerun

SpecRerun == InitRerun /\ [][NextRerun]_vars

\* ---------------------------------------------------- the disposal step alone

\* The disposal step of iteration 1 about to run, on every pair of frame
\* descriptors and with or without a snapshot held.  Frame 0 has been blitted
\* on the cleared canvas and emitted.  In a call of decodeGif a snapshot is
\* held here exactly if frame 0 has disposal 3; the step is taken here with
\* both for every disposal code, as its `&& previousCanvasBuffer` test allows.
InitDisposal ==
    /\ \E dim \in CanvasDims :
          \E f \in SeqsOf(GeometryInfos(dim[1], dim[2]), 2) :
              reader = ReaderOf(dim, 2, f)
    /\ \E snapshot \in {Null, 2} : previousCanvasBuffer = snapshot
    /\ \E cleared \in {InitCanvas(ZeroBuffer(CanvasLength(reader.width,
                                                          reader.height)))} :
          heap = << BlitFrame(0, cleared), cleared, BlitFrame(0, cleared) >>
    /\ canvasBuffer = 1
    /\ frames = << FrameOf(3, reader.info[1], reader.height, reader.width) >>
    /\ i = 1
    /\ frameInfo = reader.info[2]
    /\ pc = "dispose"
    /\ result = << >>
    /\ thrown = << >>
    /\ handed = << heap[2] >>
    /\ blitted = << heap[1] >>
    /\ written = 0
    /\ trace = << << "frameInfo", 0 >>, << "blit", 0 >>, << "emit", 0 >>,
                  << "frameInfo", 1 >> >>
    /\ run = 1
    /\ first = << >>
    /\ other = << >>
    /\ ServerIdle
    /\ InputParsed

NextDisposal == Dispose

SpecDisposal == InitDisposal /\ [][NextDisposal]_vars

\* ------------------------------------------------- two invocations at once

\* The state of one invocation of decodeGif: its argument, its local
\* variables and what it gave its caller.
LocalsOf(r, cb, pcb, fr, ix, fi, at, res, thr, hd, bl, wr, tr) ==
    [reader |-> r, canvasBuffer |-> cb, previousCanvasBuffer |-> pcb,
     frames |-> fr, i |-> ix, frameInfo |-> fi, pc |-> at, result |-> res,
     thrown |-> thr, handed |-> hd, blitted |-> bl, written |-> wr,
     trace |-> tr]

\* The running invocation's state.
Running ==
    LocalsOf(reader, canvasBuffer, previousCanvasBuffer, frames, i,
             frameInfo, pc, result, thrown, handed, blitted, written, trace)

\* An invocation on parser r that has not taken a step.
Entered(r) ==
    LocalsOf(r, Null, Null, << >>, 0, << >>, "start", << >>, << >>, << >>,
             << >>, 0, << >>)

\* Frame descriptors of the two invocations: a frame in the last column that
\* runs over the canvas's edges, kept, restored to background or restored to
\* previous.
PairInfos(w, h) ==
    { FrameInfoOf([x |-> w - 1, y |-> 0, width |-> 2, height |-> h + 1],
                  Undefined, d) : d \in {0, 2, 3} }

\* The parsers of the two invocations, some with a failing call.
IsPairReader(r) ==
    \E dim \in CanvasDims, n \in 0 .. MaxRerunFrames :
        \E f \in SeqsOf(PairInfos(dim[1], dim[2]), n) :
            \/ r = ReaderOf(dim, n, f)
            \/ /\ \A k \in 1 .. n : f[k].disposal = 3
               /\ \E fl \in FailPoints(n) :
                     r = [ReaderOf(dim, n, f) EXCEPT !.fail = fl]

\* A call of decodeGif alone has ended; now two invocations are entered on
\* two inputs of the same content, in one process with one heap.
Fork ==
    /\ pc \in {"done", "threw"}
    /\ run = 1
    /\ written = 0
    /\ first' = << [reader |-> reader, outcome |-> Outcome, steps |-> trace] >>
    /\ run' = 2
    /\ other' = << Entered(reader) >>
    /\ canvasBuffer' = Null
    /\ previousCanvasBuffer' = Null
    /\ frames' = << >>
    /\ i' = 0
    /\ frameInfo' = << >>
    /\ pc' = "start"
    /\ result' = << >>
    /\ thrown' = << >>
    /\ handed' = << >>
    /\ blitted' = << >>
    /\ trace' = << >>
    /\ UNCHANGED <<reader, heap, written, serverVars,
                   inputVars>>

\* The scheduler takes the running invocation off and puts the other one
\* on, between any two steps.  The heap is the process's and stays.
Switch ==
    /\ other # << >>
    /\ other' = << Running >>
    /\ reader' = other[1].reader
    /\ canvasBuffer' = other[1].canvasBuffer
    /\ previousCanvasBuffer' = other[1].previousCanvasBuffer
    /\ frames' = other[1].frames
    /\ i' = other[1].i
    /\ frameInfo' = other[1].frameInfo
    /\ pc' = other[1].pc
    /\ result' = other[1].result
    /\ thrown' = other[1].thrown
    /\ handed' = other[1].handed
    /\ blitted' = other[1].blitted
    /\ written' = other[1].written
    /\ trace' = other[1].trace
    /\ UNCHANGED <<heap, run, first, serverVars,
                   inputVars>>

InitPair ==
    /\ IsPairReader(reader)
    /\ heap = << >>
    /\ canvasBuffer = Null
    /\ previousCanvasBuffer = Null
    /\ frames = << >>
    /\ i = 0
    /\ frameInfo = << >>
    /\ pc = "start"
    /\ result = << >>
    /\ thrown = << >>
    /\ handed = << >>
    /\ blitted = << >>
    /\ written = 0
    /\ trace = << >>
    /\ run = 1
    /\ first = << >>
    /\ other = << >>
    /\ ServerIdle
    /\ InputParsed

NextPair ==
    \/ Next
    \/ Fork
    \/ Switch

SpecPair == InitPair /\ [][NextPair]_vars

\* ------------------------------------------- the example server's requests

\* A POST arrives at one of the two endpoints: it is answered at once, or
\* the handler awaits convertGifBuffer.
Arrive(r) ==
    /\ reqs[r].pc = "idle"
    /\ \E route \in Routes : \E form \in FormsOf(route) :
          reqs' = [reqs EXCEPT ![r] = HandlerEntered(route, form)]
    /\ UNCHANGED <<now, advances, disk, decodeVars, workerVars, get,
                 inputVars>>

\* convertGifBuffer settles: resolved, the handler names the file by the
\* clock and awaits writeFile; rejected, the catch answers 500.
Converted(r) ==
    /\ reqs[r].pc = "converting"
    /\ \E ok \in BOOLEAN :
          reqs' = [reqs EXCEPT ![r] =
                      IF ok
                      THEN [@ EXCEPT !.pc = "writing",
                                     !.filename = FilenameOf(now)]
                      ELSE Answered(@, "failed", 500)]
    /\ UNCHANGED <<now, advances, disk, decodeVars, workerVars, get,
                 inputVars>>

\* writeFile settles: resolved, the file is on the disk, the response
\* carries its URL and the cleanup timer is set; rejected, the catch
\* answers 500.
Written(r) ==
    /\ reqs[r].pc = "writing"
    /\ \E ok \in BOOLEAN :
          IF ok
          THEN /\ disk' = WriteFile(FilepathOf(reqs[r].filename), r)
               /\ reqs' = [reqs EXCEPT ![r] =
                              [Answered(@, "served", 200) EXCEPT
                                  !.wrote = TRUE,
                                  !.videoUrl =
                                      IF reqs[r].route = "express"
                                      THEN VideoUrlOf(reqs[r].filename)
                                      ELSE ApiVideoUrlOf(reqs[r].filename),
                                  !.timerAt = now + CleanupDelay,
                                  !.timers = 1]]
          ELSE /\ reqs' = [reqs EXCEPT ![r] = Answered(@, "failed", 500)]
               /\ UNCHANGED disk
    /\ UNCHANGED <<now, advances, decodeVars, workerVars, get,
                 inputVars>>

\* The cleanup timer of request r fires, once due and after every timer
\* due earlier: it unlinks the request's path; a rejection of unlink is
\* caught and dropped.
TimerFires(r) ==
    /\ reqs[r].pc = "served"
    /\ now >= reqs[r].timerAt
    /\ \A q \in Pending : reqs[q].timerAt >= reqs[r].timerAt
    /\ disk' = IF UnlinkFails(FilepathOf(reqs[r].filename))
               THEN disk
               ELSE Unlink(FilepathOf(reqs[r].filename))
    /\ reqs' = [reqs EXCEPT ![r].pc = "cleaned"]
    /\ UNCHANGED <<now, advances, decodeVars, workerVars, get,
                 inputVars>>

\* Time passes: a millisecond, the cleanup delay, or a millisecond less.
Advance ==
    /\ advances < MaxAdvances
    /\ advances' = advances + 1
    /\ \E d \in {1, CleanupDelay - 1, CleanupDelay} : now' = now + d
    /\ UNCHANGED <<reqs, disk, decodeVars, workerVars, get,
                 inputVars>>

\* The server started; decodeGif's own state is left out of account.
InitServer ==
    /\ ServerIdle
    /\ InputParsed
    /\ reader = ReaderOf(<<0, 0>>, 0, << >>)
    /\ heap = << >>
    /\ canvasBuffer = Null
    /\ previousCanvasBuffer = Null
    /\ frames = << >>
    /\ i = 0
    /\ frameInfo = << >>
    /\ pc = "start"
    /\ result = << >>
    /\ thrown = << >>
    /\ handed = << >>
    /\ blitted = << >>
    /\ written = 0
    /\ trace = << >>
    /\ run = 1
    /\ first = << >>
    /\ other = << >>

NextServer ==
    \/ \E r \in Reqs : Arrive(r)
    \/ \E r \in Reqs : Converted(r)
    \/ \E r \in Reqs : Written(r)
    \/ \E r \in Reqs : TimerFires(r)
    \/ Advance

SpecServer == InitServer /\ [][NextServer]_vars

\* ------------------------------------------------ the web worker's steps

\* The worker's script runs to its end: the listener is registered and
\* 'ready' is posted.
WorkerLoads ==
    /\ workerPc = "loading"
    /\ workerPc' = "listening"
    /\ posted' = Append(posted, ReadyMessage)
    /\ UNCHANGED <<requests, now, advances, reqs, disk, decodeVars, get,
                 inputVars>>

\* Message m is delivered: the listener takes its id, posts 'progress' and
\* awaits convertGifBuffer.
Receive(m) ==
    /\ workerPc = "listening"
    /\ requests[m].pc = "unsent"
    /\ \A n \in Messages : n < m => requests[n].pc # "unsent"
    /\ \E id \in Ids :
          /\ requests' = [requests EXCEPT ![m] =
                              [pc |-> "converting", id |-> id,
                               outcome |-> "none"]]
          /\ posted' = Append(posted, ProgressMessage(m, id))
    /\ UNCHANGED <<workerPc, now, advances, reqs, disk, decodeVars, get,
                 inputVars>>

\* convertGifBuffer of message m resolves: 'success' is posted.
Resolves(m) ==
    /\ requests[m].pc = "converting"
    /\ requests' = [requests EXCEPT ![m].pc = "answered",
                                    ![m].outcome = "resolved"]
    /\ posted' = Append(posted, SuccessMessage(m))
    /\ UNCHANGED <<workerPc, now, advances, reqs, disk, decodeVars, get,
                 inputVars>>

\* convertGifBuffer of message m rejects: the catch block posts 'error'.
Rejects(m) ==
    /\ requests[m].pc = "converting"
    /\ requests' = [requests EXCEPT ![m].pc = "answered",
                                    ![m].outcome = "rejected"]
    /\ posted' = Append(posted, ErrorMessage(m))
    /\ UNCHANGED <<workerPc, now, advances, reqs, disk, decodeVars, get,
                 inputVars>>

\* The worker created; the server's and decodeGif's state left out of
\* account.
InitWorker == InitServer

NextWorker ==
    \/ WorkerLoads
    \/ \E m \in Messages : Receive(m)
    \/ \E m \in Messages : Resolves(m)
    \/ \E m \in Messages : Rejects(m)

SpecWorker == InitWorker /\ [][NextWorker]_vars

\* -------------------------------------------------- the video route's steps

\* GET /api/video/<filename> arrives: a name the pattern rejects is answered
\* 400, for another the handler awaits readFile(join('/tmp', filename)).
GetArrives ==
    /\ get.pc = "idle"
    /\ \E filename \in Filenames :
          get' = IF ~RegExpTest(FilenamePattern, filename)
                 THEN [NoGet EXCEPT !.pc = "answered",
                                    !.filename = filename,
                                    !.status = 400,
                                    !.body = "Invalid filename",
                                    !.answers = 1]
                 ELSE [NoGet EXCEPT !.pc = "reading",
                                    !.filename = filename,
                                    !.read = << FilepathOf(filename) >>]
    /\ UNCHANGED <<now, advances, reqs, disk, decodeVars, workerVars,
                 inputVars>>

\* readFile settles: resolved, the file's bytes are the response; rejected,
\* the catch answers 404.
ReadSettles ==
    /\ get.pc = "reading"
    /\ get' = IF \E e \in disk : e.path = get.read[1]
              THEN [get EXCEPT !.pc = "answered", !.status = 200,
                               !.body = get.read[1], !.answers = 1]
              ELSE [get EXCEPT !.pc = "answered", !.status = 404,
                               !.body = "Video not found", !.answers = 1]
    /\ UNCHANGED <<now, advances, reqs, disk, decodeVars, workerVars,
                 inputVars>>

\* A cleanup timer of the conversion route removes a stored video.
Cleaned ==
    /\ \E e \in disk : disk' = Unlink(e.path)
    /\ UNCHANGED <<now, advances, reqs, decodeVars, workerVars, get,
                 inputVars>>

\* The route with some videos stored; the rest of the state left out of
\* account.
InitGet ==
    /\ now = 0
    /\ advances = 0
    /\ reqs = [r \in Reqs |-> NoRequest]
    /\ disk \in SUBSET { [path |-> FilepathOf(n), by |-> 0] : n \in StoredNames }
    /\ WorkerIdle
    /\ get = NoGet
    /\ InputParsed
    /\ reader = ReaderOf(<<0, 0>>, 0, << >>)
    /\ heap = << >>
    /\ canvasBuffer = Null
    /\ previousCanvasBuffer = Null
    /\ frames = << >>
    /\ i = 0
    /\ frameInfo = << >>
    /\ pc = "start"
    /\ result = << >>
    /\ thrown = << >>
    /\ handed = << >>
    /\ blitted = << >>
    /\ written = 0
    /\ trace = << >>
    /\ run = 1
    /\ first = << >>
    /\ other = << >>

NextGet ==
    \/ GetArrives
    \/ ReadSettles
    \/ Cleaned

SpecGet == InitGet /\ [][NextGet]_vars

\* ------------------------------------------- decodeGif from its argument

\* Lines 28-48: the argument is normalized and the parser constructed over
\* the Uint8Array; `reader` is what it finds there.
Normalize ==
    /\ pc = "entry"
    /\ uint8Array' = Normalized(gifBuffer).uint8Array
    /\ memory' = Normalized(gifBuffer).memory
    /\ reader' = ParserOf(BytesIn(memory', uint8Array'))
    /\ pc' = "start"
    /\ UNCHANGED <<gif, gifBuffer, heap, canvasBuffer, previousCanvasBuffer,
                   frames, i, frameInfo, result, thrown, handed, blitted,
                   written, trace, run, first, other, serverVars>>

\* The first call has ended and decodeGif is called again with the same
\* GIF bytes, supplied afresh in any of the ways.
RerunAs ==
    /\ pc \in {"done", "threw"}
    /\ run = 1
    /\ first' = << [reader |-> reader, outcome |-> Outcome, steps |-> trace,
                    input |-> gifBuffer] >>
    /\ run' = 2
    /\ \E input \in InputsOf(gif, Len(memory) + 1) :
          /\ memory' = Append(memory, input.bytes)
          /\ gifBuffer' = input.gifBuffer
    /\ uint8Array' = << >>
    /\ frames' = << >>
    /\ i' = 0
    /\ frameInfo' = << >>
    /\ pc' = "entry"
    /\ result' = << >>
    /\ thrown' = << >>
    /\ handed' = << >>
    /\ blitted' = << >>
    /\ trace' = << >>
    /\ UNCHANGED <<gif, reader, heap, canvasBuffer, previousCanvasBuffer,
                   written, other, serverVars>>

\* decodeGif called with a GIF file's bytes, supplied in any of the ways.
InitInput ==
    /\ gif \in GifFiles
    /\ \E input \in InputsOf(gif, 1) :
          /\ memory = << input.bytes >>
          /\ gifBuffer = input.gifBuffer
    /\ uint8Array = << >>
    /\ reader = ReaderOf(<<0, 0>>, 0, << >>)
    /\ heap = << >>
    /\ canvasBuffer = Null
    /\ previousCanvasBuffer = Null
    /\ frames = << >>
    /\ i = 0
    /\ frameInfo = << >>
    /\ pc = "entry"
    /\ result = << >>
    /\ thrown = << >>
    /\ handed = << >>
    /\ blitted = << >>
    /\ written = 0
    /\ trace = << >>
    /\ run = 1
    /\ first = << >>
    /\ other = << >>
    /\ ServerIdle

NextInput ==
    \/ Normalize
    \/ Construct
    \/ ConstructThrows
    \/ LoopEnter
    \/ Dispose
    \/ Snapshot
    \/ Blit
    \/ Emit
    \/ Return
    \/ RerunAs

SpecInput == InitInput /\ [][NextInput]_vars

\* ----------------------------------------------------------------- claims

\* The bytes of the k-th emitted frame (k from 1).
Content(k) == heap[frames[k].data]

\* The canvas size of the run.
W == reader.width

H == reader.height

\* C1: the output holds one entry per processed frame, in frame order: in
\* every state the sequence holds exactly i entries (i + 1 once iteration i
\* has pushed and incremented i), entry k carries frame k's own delay and the
\* canvas as frame k's blit left it, and the returned sequence holds exactly
\* numFrames entries.
C1_FrameCountAndOrder ==
    /\ Len(frames) = i
    /\ i <= reader.numFrames
    /\ \A k \in 1 .. Len(frames) :
          /\ frames[k].delay = DelayMs(reader.info[k])
          /\ written # k => Content(k) = blitted[k]
    /\ pc = "done" =>
          /\ Len(result[1].frames) = reader.numFrames
          /\ result[1].frames = frames

\* A decode of three frames has returned, and its three frames differ.
C1_Witness ==
    /\ pc = "done"
    /\ Len(result[1].frames) = 3
    /\ written = 0
    /\ Content(1) # Content(2)
    /\ Content(2) # Content(3)
    /\ Content(1) # Content(3)

\* C2: every emitted buffer is a storage object of its own: its id is
\* neither the canvas's nor the snapshot's nor another emitted frame's, and
\* after the caller wrote into one returned buffer every other returned
\* buffer still holds what was emitted.
C2_IndependentBuffers ==
    /\ \A k \in 1 .. Len(frames) :
          /\ frames[k].data # canvasBuffer
          /\ frames[k].data # previousCanvasBuffer
          /\ \A j \in 1 .. Len(frames) :
                j # k => frames[j].data # frames[k].data
    /\ written # 0 =>
          \A j \in 1 .. Len(frames) :
              j # written => Content(j) = blitted[j]

\* The caller has written into one of several returned buffers of a decode
\* that took a snapshot, and the written buffer now differs from what was
\* emitted, while another frame emitted the same bytes.
C2_Witness ==
    /\ written # 0
    /\ Len(frames) >= 2
    /\ previousCanvasBuffer # Null
    /\ Content(written) # blitted[written]
    /\ \E j \in 1 .. Len(frames) :
          j # written /\ blitted[j] = blitted[written]

\* C3: while decodeGif runs, no step changes an emitted frame: its record
\* (buffer, delay, size) and its buffer's bytes are the same after every
\* step of the decode as before it.
C3_EmittedFramesFrozen ==
    [][pc # "done" =>
         \A k \in 1 .. Len(frames) :
             /\ Len(frames') >= k
             /\ frames'[k] = frames[k]
             /\ heap'[frames[k].data] = heap[frames[k].data]]_vars

\* Frame 0 was emitted, its disposal 2 then changed the canvas, frame 1 was
\* blitted and emitted, and frame 0's buffer still holds what was emitted.
C3_Witness ==
    /\ pc = "done"
    /\ Len(frames) >= 2
    /\ reader.info[1].disposal = 2
    /\ handed[2] # blitted[1]
    /\ blitted[2] # blitted[1]
    /\ written = 0
    /\ Content(1) = blitted[1]


\* The pixels of frame descriptor f's rectangle that lie inside the canvas.
RectInCanvas(f) ==
    { p \in (0 .. W - 1) \X (0 .. H - 1) :
        /\ f.x[1] <= p[1] /\ p[1] < f.x[1] + f.width
        /\ f.y[1] <= p[2] /\ p[2] < f.y[1] + f.height }

\* The four byte indices of pixel p.
PixelBytes(p) == (p[2] * W + p[1]) * 4 .. (p[2] * W + p[1]) * 4 + 3

\* The frame indices k + 1 (from 1) whose frame has been handed to the blit
\* and has a predecessor.
Transitions == { k \in 1 .. Len(handed) : k >= 2 }

\* C4: when frame i has disposal 2, the canvas handed to the blit of frame
\* i + 1 is opaque white at every pixel of frame i's rectangle that lies
\* inside the canvas.
C4_Disposal2White ==
    \A k \in Transitions :
        reader.info[k - 1].disposal = 2 =>
            \A p \in RectInCanvas(reader.info[k - 1]) :
                \A b \in PixelBytes(p) : handed[k][b] = 255

\* Frame i has disposal 2 and a rectangle with pixels inside the canvas that
\* frame i + 1's rectangle does not hold, frame i had painted them, and
\* frame i + 1 has been handed to the blit.
C4_Witness ==
    \E k \in Transitions :
        /\ reader.info[k - 1].disposal = 2
        /\ RectInCanvas(reader.info[k - 1]) \ RectInCanvas(reader.info[k]) # {}
        /\ handed[k] # blitted[k - 1]

\* C5: when frame i has disposal 3, the canvas handed to the blit of frame
\* i + 1 equals, byte for byte, the canvas that was handed to the blit of
\* frame i; for i = 0 that is the fully transparent canvas.
C5_Disposal3Restores ==
    \A k \in Transitions :
        reader.info[k - 1].disposal = 3 =>
            /\ handed[k] = handed[k - 1]
            /\ k = 2 => \A b \in DOMAIN handed[k] : handed[k][b] = 0

\* Frame i > 0 has disposal 3, its blit changed the canvas, which was not
\* fully transparent before, and frame i + 1 has been handed to the blit.
C5_Witness ==
    \E k \in Transitions :
        /\ k >= 3
        /\ reader.info[k - 1].disposal = 3
        /\ blitted[k - 1] # handed[k - 1]
        /\ \E b \in DOMAIN handed[k - 1] : handed[k - 1][b] # 0

\* C6: when frame i has disposal 0 or 1, the canvas handed to the blit of
\* frame i + 1 equals the canvas as frame i's blit left it, which is also
\* what was emitted for frame i.
C6_Disposal01Keeps ==
    \A k \in Transitions :
        reader.info[k - 1].disposal \in {0, 1} =>
            /\ handed[k] = blitted[k - 1]
            /\ written # k - 1 => Content(k - 1) = blitted[k - 1]

\* Frame i has disposal 0 or 1, a snapshot different from the canvas is
\* held from an earlier frame, and frame i + 1 has been handed to the blit.
C6_Witness ==
    \E k \in Transitions :
        /\ reader.info[k - 1].disposal \in {0, 1}
        /\ previousCanvasBuffer # Null
        /\ reader.info[k].disposal # 3
        /\ heap[previousCanvasBuffer] # blitted[k - 1]

\* C7: disposal 2 of frame i changes no pixel outside frame i's rectangle:
\* every canvas byte of a pixel outside it is, when frame i + 1 is handed to
\* the blit, what frame i's blit left there.
C7_Disposal2OutsideKept ==
    \A k \in Transitions :
        reader.info[k - 1].disposal = 2 =>
            \A p \in ((0 .. W - 1) \X (0 .. H - 1))
                      \ RectInCanvas(reader.info[k - 1]) :
                \A b \in PixelBytes(p) : handed[k][b] = blitted[k - 1][b]

\* Frame i has disposal 2 and a rectangle that runs over the right edge of
\* the canvas, the reset changed the canvas, pixels outside the rectangle
\* are not white, and frame i + 1 has been handed to the blit.
C7_Witness ==
    \E k \in Transitions :
        /\ reader.info[k - 1].disposal = 2
        /\ reader.info[k - 1].x[1] + reader.info[k - 1].width > W
        /\ handed[k] # blitted[k - 1]
        /\ \E b \in DOMAIN handed[k] : handed[k][b] # 255

\* The larger of two numbers.
Max(a, b) == IF a >= b THEN a ELSE b

\* The raw delay of frame descriptor f in centiseconds, taken as 10 when it
\* is absent or 0.
RawOrDefault(f) ==
    IF f.delay = << >> THEN 10 ELSE IF f.delay[1] = 0 THEN 10 ELSE f.delay[1]

\* C8: every emitted delay is max(d, 1) * 10 milliseconds, d being the
\* frame's own raw delay in centiseconds, or 10 when that is absent or 0:
\* absent and 0 give 100, 5 gives 50, 1 gives 10.
C8_DelayConversion ==
    \A k \in 1 .. Len(frames) :
        LET f == reader.info[k]
        IN  /\ frames[k].delay = Max(RawOrDefault(f), 1) * 10
            /\ f.delay = << >> => frames[k].delay = 100
            /\ f.delay = << 0 >> => frames[k].delay = 100
            /\ f.delay = << 5 >> => frames[k].delay = 50
            /\ f.delay = << 1 >> => frames[k].delay = 10

\* A decode has emitted frames with raw delays absent, 0 and 1, in that
\* order, so that neighbours with different delays are told apart.
C8_Witness ==
    /\ Len(frames) = 3
    /\ reader.info[1].delay = << >>
    /\ reader.info[2].delay = << 0 >>
    /\ reader.info[3].delay = << 1 >>

\* C9: every frame of the output has a delay that is a positive whole number
\* of milliseconds.
C9_DelayPositive ==
    /\ \A k \in 1 .. Len(frames) :
          frames[k].delay \in Nat /\ frames[k].delay > 0
    /\ pc = "done" =>
          \A k \in 1 .. Len(result[1].frames) :
              result[1].frames[k].delay \in Nat /\ result[1].frames[k].delay > 0

\* A decode has returned frames whose raw delays were 0 and absent.
C9_Witness ==
    /\ pc = "done"
    /\ \E j, k \in 1 .. Len(result[1].frames) :
          /\ reader.info[j].delay = << 0 >>
          /\ reader.info[k].delay = << >>

\* C10: every emitted buffer is width * height * 4 bytes long, every emitted
\* frame carries the parser's width and height, and so does the returned
\* value.
C10_Sizes ==
    /\ \A k \in 1 .. Len(frames) :
          /\ DOMAIN Content(k) = 0 .. (reader.width * reader.height * 4 - 1)
          /\ frames[k].width = reader.width
          /\ frames[k].height = reader.height
    /\ pc = "done" =>
          /\ result[1].width = reader.width
          /\ result[1].height = reader.height
          /\ \A k \in 1 .. Len(result[1].frames) :
                /\ result[1].frames[k].width = result[1].width
                /\ result[1].frames[k].height = result[1].height
                /\ Cardinality(DOMAIN heap[result[1].frames[k].data])
                     = result[1].width * result[1].height * 4

\* A decode of a canvas wider than high has returned several frames, after
\* a disposal-2 reset, a snapshot and a restore.
C10_Witness ==
    /\ pc = "done"
    /\ Len(result[1].frames) >= 3
    /\ reader.width # reader.height
    /\ reader.info[1].disposal = 2
    /\ reader.info[2].disposal = 3

\* C11: when the parser reports zero frames, decodeGif throws nothing, calls
\* neither frameInfo nor the blit, emits nothing, and returns an empty frames
\* sequence with the parser's width and height.
C11_ZeroFrames ==
    (reader.numFrames = 0 /\ ~ ConstructFails) =>
        /\ thrown = << >>
        /\ trace = << >>
        /\ frames = << >>
        /\ pc \in {"start", "loop", "done"}
        /\ pc = "done" =>
              result = << [frames |-> << >>, height |-> reader.height,
                           width |-> reader.width] >>

\* A decode of a parser with zero frames has returned.
C11_Witness ==
    /\ reader.numFrames = 0
    /\ pc = "done"
    /\ result # << >>
    /\ result[1].frames = << >>

\* C12: decodeGif is all-or-nothing: when the parser's constructor, its
\* frameInfo(k) or its blit of frame k fails, decodeGif ends by throwing that
\* very error, it never returns a value, and it got no further than frame k;
\* and it throws nothing but a parser's error.
C12_AllOrNothing ==
    /\ reader.fail # NoFail =>
          /\ result = << >>
          /\ pc # "done"
          /\ Len(frames) <= reader.fail.at
          /\ i <= reader.fail.at
          /\ thrown # << >> => thrown = << reader.fail >>
    /\ reader.fail = NoFail => thrown = << >> /\ pc # "threw"
    /\ pc = "threw" <=> thrown # << >>
    /\ result # << >> <=> pc = "done"

\* The blit of frame 2 failed after frames 0 and 1 had been emitted, and
\* decodeGif has thrown.
C12_Witness ==
    /\ pc = "threw"
    /\ reader.fail = [op |-> "blit", at |-> 2]
    /\ Len(frames) = 2
    /\ thrown = << reader.fail >>

\* Frame descriptor f's rectangle reaches beyond the canvas.
Beyond(f) == f.x[1] + f.width > W \/ f.y[1] + f.height > H

\* C13: a disposal-2 rectangle that reaches beyond the canvas raises no
\* error; the loops write only byte indices of the canvas, all of them bytes
\* of pixels of the rectangle; and the canvas handed to the next blit is
\* white on the rectangle's pixels inside the canvas and as the previous blit
\* left it everywhere else.
C13_Disposal2Clamped ==
    /\ (pc = "dispose" /\ i > 0 /\ reader.info[i].disposal = 2
           /\ Beyond(reader.info[i])) =>
          \A p \in FillPixels(reader.info[i], W, H) :
              /\ p \in RectInCanvas(reader.info[i])
              /\ \A c \in 0 .. 3 :
                    (p[2] * W + p[1]) * 4 + c \in DOMAIN heap[canvasBuffer]
    /\ \A k \in Transitions :
          (reader.info[k - 1].disposal = 2 /\ Beyond(reader.info[k - 1])) =>
              LET inside == RectInCanvas(reader.info[k - 1])
              IN  /\ thrown = << >>
                  /\ \A p \in (0 .. W - 1) \X (0 .. H - 1) :
                        \A b \in PixelBytes(p) :
                            handed[k][b] =
                                IF p \in inside THEN 255
                                ELSE blitted[k - 1][b]

\* Frame 0 has disposal 2 and a rectangle that runs over the right and the
\* bottom edge, frame 1 has disposal 2 and a rectangle wholly outside the
\* canvas, and frame 2 has been handed to the blit.
C13_Witness ==
    /\ Len(handed) = 3
    /\ reader.info[1].disposal = 2
    /\ reader.info[1].x[1] < W
    /\ reader.info[1].x[1] + reader.info[1].width > W
    /\ reader.info[1].y[1] + reader.info[1].height > H
    /\ handed[2] # blitted[1]
    /\ reader.info[2].disposal = 2
    /\ reader.info[2].x[1] >= W
    /\ reader.info[2].y[1] >= H
    /\ handed[3] = blitted[2]

\* The canvas that frame descriptor f's disposal makes of the canvas `after`
\* its blit, `before` being the canvas handed to its blit.
Entering(f, before, after) ==
    IF f.disposal = 2
    THEN LET white == UNION { PixelBytes(p) : p \in RectInCanvas(f) }
         IN  [b \in DOMAIN after |-> IF b \in white THEN 255 ELSE after[b]]
    ELSE IF f.disposal = 3 THEN before ELSE after

C19_FirstCanvasTransparent ==
    /\ (pc \in {"loop", "dispose", "snapshot", "blit"} /\ i = 0) =>
          /\ \A b \in DOMAIN heap[canvasBuffer] : heap[canvasBuffer][b] = 0
          /\ \A n \in 1 .. Len(trace) : trace[n][1] # "dispose"
    /\ Len(handed) >= 1 =>
          /\ DOMAIN handed[1] = 0 .. (W * H * 4 - 1)
          /\ \A b \in DOMAIN handed[1] : handed[1][b] = 0

\* Frame 0 has disposal 2 and a rectangle inside the canvas, and has been
\* handed to the blit.
C19_Witness ==
    /\ Len(handed) >= 1
    /\ reader.info[1].disposal = 2
    /\ RectInCanvas(reader.info[1]) # {}
    /\ blitted[1] # handed[1]

\* The calls and steps of iteration k, in the order the code takes them.
IterationTrace(k) ==
    << << "frameInfo", k >> >>
    \o (IF k > 0
        THEN << << "frameInfo", k - 1 >>, << "dispose", k - 1 >> >>
        ELSE << >>)
    \o (IF reader.info[k + 1].disposal = 3
        THEN << << "snapshot", k >> >>
        ELSE << >>)
    \o << << "blit", k >>, << "emit", k >> >>

\* The calls and steps of iterations 0 .. n - 1.
RECURSIVE TraceUpTo(_)
TraceUpTo(n) == IF n = 0 THEN << >> ELSE TraceUpTo(n - 1) \o IterationTrace(n - 1)

\* C20: frames are processed in index order 0 .. N - 1, every step once per
\* frame: in iteration i the disposal of frame i - 1, the snapshot (if frame
\* i has disposal 3), the blit of frame i, the emit of frame i; so what the
\* call has done is always a prefix of that sequence, all of it when it
\* returns, and frame i's disposal comes after frame i's emit.
C20_StepOrder ==
    /\ LET whole == TraceUpTo(reader.numFrames)
       IN  /\ Len(trace) <= Len(whole)
           /\ trace = SubSeq(whole, 1, Len(trace))
           /\ pc = "done" => trace = whole
    /\ \A n \in 1 .. Len(trace) :
          /\ trace[n][1] = "dispose" =>
                \E m \in 1 .. n - 1 : trace[m] = << "emit", trace[n][2] >>
          /\ trace[n][1] = "blit" =>
                \A m \in 1 .. n - 1 : trace[m] # trace[n]

\* A decode of three frames, the second with disposal 3, has returned.
C20_Witness ==
    /\ pc = "done"
    /\ reader.numFrames = 3
    /\ reader.info[2].disposal = 3
    /\ Len(trace) > 12

\* C14: the last frame's disposal code has no observable effect: a decode of
\* a parser that differs from an earlier decode's parser only in the disposal
\* code of frame N - 1 ends with the same outcome: the same frame count, the
\* same bytes, delay, width and height of every frame, or the same error.
C14_LastDisposalUnobservable ==
    (run = 2 /\ written = 0 /\ pc \in {"done", "threw"}
         /\ reader # first[1].reader) =>
        /\ reader.numFrames > 0
        /\ reader = WithLastDisposal(first[1].reader,
                                     reader.info[reader.numFrames].disposal)
        /\ Outcome = first[1].outcome

\* Two decodes of two frames have returned; frame 0 has disposal 3 in both,
\* frame 1 had disposal 3 in the first decode and has disposal 2 in the
\* second.
C14_Witness ==
    /\ run = 2
    /\ written = 0
    /\ pc = "done"
    /\ reader.numFrames = 2
    /\ reader.info[1].disposal = 3
    /\ first[1].reader.info[2].disposal = 3
    /\ reader.info[2].disposal = 2
    /\ RectInCanvas(reader.info[2]) # {}
    /\ Len(first[1].outcome.value[1].frames) = 2

\* C17: decodeGif is deterministic: a second decode of a parser with the
\* same width, height, frame descriptors and blit behaviour ends as the
\* first did: it returns the same value (every frame's bytes included) after
\* the same parser calls, or it throws the same error at the same frame.
C17_Deterministic ==
    (run = 2 /\ written = 0 /\ pc \in {"done", "threw"}
         /\ reader = first[1].reader) =>
        /\ Outcome = first[1].outcome
        /\ trace = first[1].steps
        /\ thrown # << >> => thrown = first[1].outcome.thrown

\* Two decodes of the same two frames, the first frame with disposal 2 and a
\* rectangle in the canvas, have returned.
C17_Witness ==
    /\ run = 2
    /\ written = 0
    /\ pc = "done"
    /\ reader = first[1].reader
    /\ reader.numFrames = 2
    /\ reader.info[1].disposal = 2
    /\ RectInCanvas(reader.info[1]) # {}
    /\ Len(result[1].frames) = 2
    /\ result[1].frames[1].data # result[1].frames[2].data

\* C16: when the previous frame's disposal code is 3 and no snapshot is
\* held, the disposal step changes no byte of the canvas (nor of any other
\* buffer), throws nothing and goes on to the snapshot step.
C16_NoSnapshotKeepsCanvas ==
    [][(/\ pc = "dispose"
        /\ i > 0
        /\ reader.info[i].disposal = 3
        /\ previousCanvasBuffer = Null) =>
           (/\ heap'[canvasBuffer] = heap[canvasBuffer]
            /\ heap' = heap
            /\ thrown' = << >>
            /\ previousCanvasBuffer' = Null
            /\ pc' = "snapshot")]_vars

\* The disposal step has run for a previous frame with disposal 3 whose blit
\* painted the canvas, with no snapshot held.
C16_Witness ==
    /\ pc = "snapshot"
    /\ i = 1
    /\ reader.info[1].disposal = 3
    /\ previousCanvasBuffer = Null
    /\ thrown = << >>
    /\ \E b \in DOMAIN heap[canvasBuffer] : heap[canvasBuffer][b] # 0
    /\ heap[canvasBuffer] = blitted[1]

\* The typed arrays an invocation holds: its canvas, its snapshot and the
\* buffers of its output sequence.
IdsOf(l) ==
    ({l.canvasBuffer, l.previousCanvasBuffer} \ {Null})
    \cup { l.frames[k].data : k \in 1 .. Len(l.frames) }

\* The two invocations hold no typed array in common, and each one that has
\* ended (its caller not having written to its result) has the outcome of
\* the call that ran alone.
C18_Separate ==
    other # << >> =>
        /\ IdsOf(Running) \cap IdsOf(other[1]) = {}
        /\ (pc \in {"done", "threw"} /\ written = 0) =>
              Outcome = first[1].outcome
        /\ (other[1].pc \in {"done", "threw"} /\ other[1].written = 0) =>
              OutcomeOf(other[1].result, other[1].thrown) = first[1].outcome

\* Every step is either a switch, which changes no typed array and nothing
\* of either invocation's state, or a step of the running invocation, which
\* changes no typed array the other one holds and nothing of the other one's
\* state.
C18_Untouched ==
    (other # << >> /\ other' # << >>) =>
        \/ /\ other' = << Running >>
           /\ Running' = other[1]
           /\ heap' = heap
        \/ /\ other' = other
           /\ \A id \in IdsOf(other[1]) : heap'[id] = heap[id]

\* C18: two invocations of decodeGif share no mutable state: under every
\* interleaving of their steps, each one's canvas, snapshot and output
\* buffers are only its own and change only in its own steps, and each one
\* ends with the outcome it has when it runs alone.
C18_NoSharedState == [](C18_Separate) /\ [][C18_Untouched]_vars

\* Both invocations have returned two frames after steps of the one were
\* taken between steps of the other: the one that returned last had taken
\* its snapshot and blitted frame 0 when the other one had not yet taken a
\* step of its loop.
C18_Witness ==
    /\ other # << >>
    /\ pc = "done"
    /\ other[1].pc = "done"
    /\ reader.numFrames = 2
    /\ reader.info[1].disposal = 3
    /\ reader.info[2].disposal = 3
    /\ previousCanvasBuffer < other[1].canvasBuffer
    /\ canvasBuffer < other[1].canvasBuffer
    /\ result[1].frames[2].data > other[1].result[1].frames[1].data
    /\ other[1].result[1].frames[2].data > result[1].frames[1].data

\* The disposal code of frame k (from 0).
DisposalOf(k) == reader.info[k + 1].disposal

\* The number of iterations whose snapshot step has run.
SnapshotStepsRun == IF pc \in {"blit", "emit"} THEN i + 1 ELSE i

\* The frames (from 0) with disposal 3 whose snapshot step has run.
TakenFor == { k \in 0 .. SnapshotStepsRun - 1 : DisposalOf(k) = 3 }

\* The typed array allocated as frame k's snapshot, in a call that starts
\* on an empty heap: the canvas is 1, and before frame k's snapshot every
\* frame below k allocated its output buffer and every frame of disposal 3
\* up to k its snapshot.
SnapshotIdOf(k) ==
    1 + k + Cardinality({ j \in 0 .. k : DisposalOf(j) = 3 })

\* The largest element of the non-empty set S of numbers.
MaxOf(S) == CHOOSE m \in S : \A n \in S : n <= m

\* C21 (as amended): the snapshot taken for a frame stays held after the
\* transition it was taken for: previousCanvasBuffer is never cleared, it is
\* the snapshot of the latest frame of disposal 3 whose snapshot step has
\* run, with the bytes of the canvas handed to that frame's blit, until a
\* later frame of disposal 3 replaces it.
C21_SnapshotHeldUntilReplaced ==
    /\ previousCanvasBuffer =
          IF TakenFor = {} THEN Null ELSE SnapshotIdOf(MaxOf(TakenFor))
    /\ (previousCanvasBuffer # Null /\ Len(handed) > MaxOf(TakenFor)) =>
          heap[previousCanvasBuffer] = handed[MaxOf(TakenFor) + 1]

\* Frame 0 has disposal 3, frame 1 has not; frame 1 has been blitted and the
\* snapshot taken for frame 0 is still held.
C21_Witness ==
    /\ pc = "emit"
    /\ i = 1
    /\ DisposalOf(0) = 3
    /\ DisposalOf(1) # 3
    /\ previousCanvasBuffer = SnapshotIdOf(0)
    /\ heap[previousCanvasBuffer] # heap[canvasBuffer]

\* C21 as stated: once the transition into frame i + 1 has been decided, the
\* snapshot taken for frame i is no longer held; if frame i + 1 has disposal
\* 3 the snapshot held is the new one taken for frame i + 1.
C21_SnapshotDropped ==
    (pc \in {"blit", "emit"} /\ i >= 1 /\ DisposalOf(i - 1) = 3) =>
        /\ previousCanvasBuffer # SnapshotIdOf(i - 1)
        /\ DisposalOf(i) = 3 => previousCanvasBuffer = SnapshotIdOf(i)

\* C22: a snapshot is created in iteration i exactly if frame i's own
\* disposal code is 3, and right before frame i's blit; the call allocates
\* one snapshot per such frame besides the canvas and the output buffers;
\* and with no frame of disposal 3 no snapshot is ever created.
C22_SnapshotIffDisposal3 ==
    /\ \A k \in 0 .. SnapshotStepsRun - 1 :
          (\E n \in 1 .. Len(trace) : trace[n] = << "snapshot", k >>)
              <=> DisposalOf(k) = 3
    /\ \A n \in 1 .. Len(trace) :
          trace[n][1] = "snapshot" =>
              /\ trace[n][2] < SnapshotStepsRun
              /\ \A m \in 1 .. n - 1 : trace[m] # << "blit", trace[n][2] >>
              /\ n < Len(trace) => trace[n + 1] = << "blit", trace[n][2] >>
    /\ Len(heap) = (IF pc = "start" THEN 0 ELSE 1) + Len(frames)
                       + Cardinality(TakenFor)
    /\ (\A k \in 0 .. reader.numFrames - 1 : DisposalOf(k) # 3) =>
          /\ previousCanvasBuffer = Null
          /\ \A n \in 1 .. Len(trace) : trace[n][1] # "snapshot"
          /\ Len(heap) = (IF pc = "start" THEN 0 ELSE 1) + Len(frames)

\* A decode of three frames has returned; only frame 1 has disposal 3 and
\* only it took a snapshot.
C22_Witness ==
    /\ pc = "done"
    /\ reader.numFrames = 3
    /\ DisposalOf(0) # 3
    /\ DisposalOf(1) = 3
    /\ DisposalOf(2) # 3
    /\ Len(heap) = 5
    /\ previousCanvasBuffer = 3

\* C23: a decode has exactly one canvas: from its allocation on the canvas
\* is the same typed array, of width * height * 4 bytes, whatever disposal,
\* snapshot restore or blit has run; and neither the canvas nor the snapshot
\* is a buffer of the output or of the returned value, which holds frames,
\* width and height only.
C23_OneCanvas ==
    pc # "start" =>
        /\ canvasBuffer = 1
        /\ DOMAIN heap[canvasBuffer] = 0 .. (W * H * 4 - 1)
        /\ previousCanvasBuffer # canvasBuffer
        /\ \A k \in 1 .. Len(frames) :
              frames[k].data \notin {canvasBuffer, previousCanvasBuffer}
        /\ result # << >> =>
              /\ DOMAIN result[1] = {"frames", "height", "width"}
              /\ \A k \in 1 .. Len(result[1].frames) :
                    /\ DOMAIN result[1].frames[k] =
                          {"data", "delay", "height", "width"}
                    /\ result[1].frames[k].data
                          \notin {canvasBuffer, previousCanvasBuffer}

\* A decode of three frames has returned after a restore to background and
\* a restore to previous, a snapshot still held.
C23_Witness ==
    /\ pc = "done"
    /\ reader.numFrames = 3
    /\ DisposalOf(0) = 2
    /\ DisposalOf(1) = 3
    /\ previousCanvasBuffer # Null
    /\ handed[2] # blitted[1]
    /\ handed[3] # blitted[2]

\* The indices of the blits in `trace`, in order.
BlitIndices == SelectSeq(trace, LAMBDA e : e[1] = "blit")

\* decodeGif never repeats or skips a frame index: the blits done are those
\* of frames 0, 1, 2, ... in order, the output holds one frame per index
\* below i, a return comes after exactly numFrames iterations and a throw
\* carries the parser's error.
C24_EveryIndexOnce ==
    /\ i <= reader.numFrames
    /\ Len(frames) = i
    /\ \A n \in 1 .. Len(BlitIndices) : BlitIndices[n] = << "blit", n - 1 >>
    /\ Len(BlitIndices) \in {i, i + 1}
    /\ pc = "done" =>
          /\ i = reader.numFrames
          /\ Len(BlitIndices) = reader.numFrames
          /\ thrown = << >>
    /\ pc = "threw" => thrown = << reader.fail >>

\* C24: for every frame count, every parser call returning or throwing,
\* decodeGif terminates: it returns after exactly numFrames iterations or
\* throws the parser's error, and never repeats or skips a frame index.
C24_Terminates == <>(pc \in {"done", "threw"}) /\ [](C24_EveryIndexOnce)

\* A decode of three frames has returned.
C24_Witness ==
    /\ pc = "done"
    /\ reader.numFrames = 3
    /\ Len(result[1].frames) = 3
    /\ i = 3

\* C27: the bytes emitted for frame i are the canvas as frame i's blit left
\* it: frame i blitted onto the canvas that frame i - 1's disposal made of
\* frame i - 1's canvas (the cleared canvas for frame 0); they stay so when
\* frame i's own disposal is applied to the canvas afterwards.
C27_EmittedIsPostBlit ==
    \A k \in 1 .. Len(frames) :
        /\ Content(k) = blitted[k]
        /\ blitted[k] = BlitFrame(k - 1, handed[k])
        /\ handed[k] =
              IF k = 1
              THEN [b \in 0 .. (W * H * 4 - 1) |-> 0]
              ELSE Entering(reader.info[k - 1], handed[k - 1],
                            blitted[k - 1])

\* Frame 0 has disposal 2 and a rectangle in the canvas; its disposal has
\* been applied to the canvas, and the bytes emitted for frame 0 are still
\* those its blit left.
C27_Witness ==
    /\ pc = "snapshot"
    /\ i = 1
    /\ DisposalOf(0) = 2
    /\ RectInCanvas(reader.info[1]) # {}
    /\ Content(1) # heap[canvasBuffer]
    /\ Content(1) = blitted[1]

\* C28: whenever the disposal step finds disposal 3 on the previous frame
\* i - 1, a snapshot is held, it is the one taken in iteration i - 1, and
\* its bytes are the canvas handed to the blit of frame i - 1.
C28_SnapshotOfPreviousFrame ==
    (pc = "dispose" /\ i > 0 /\ DisposalOf(i - 1) = 3) =>
        /\ previousCanvasBuffer # Null
        /\ previousCanvasBuffer = SnapshotIdOf(i - 1)
        /\ heap[previousCanvasBuffer] = handed[i]

\* The disposal step of iteration 2 finds disposal 3 on frame 1, after
\* frame 0 had disposal 3 too: the snapshot held is not the one of frame 0.
C28_Witness ==
    /\ pc = "dispose"
    /\ i = 2
    /\ DisposalOf(0) = 3
    /\ DisposalOf(1) = 3
    /\ previousCanvasBuffer = SnapshotIdOf(1)
    /\ previousCanvasBuffer # SnapshotIdOf(0)

\* C29: in a chain of consecutive frames a - 1 .. b - 1 of disposal 3, the
\* canvas entering the frame after the chain equals the canvas handed to the
\* blit of the chain's first frame, and every frame of the chain took a
\* snapshot of its own, all with those same bytes.
C29_Disposal3Chain ==
    \A a \in 1 .. Len(handed) - 1 :
        \A b \in a .. Len(handed) - 1 :
            (\A k \in a .. b : reader.info[k].disposal = 3) =>
                /\ handed[b + 1] = handed[a]
                /\ \A k \in a .. b :
                      /\ SnapshotIdOf(k - 1) \in DOMAIN heap
                      /\ heap[SnapshotIdOf(k - 1)] = handed[a]
                      /\ \E n \in 1 .. Len(trace) :
                            trace[n] = << "snapshot", k - 1 >>
                      /\ \A j \in a .. b :
                            j # k => SnapshotIdOf(j - 1) # SnapshotIdOf(k - 1)

\* Frames 0 and 1 have disposal 3 and both painted the canvas; frame 2 has
\* been handed the canvas.
C29_Witness ==
    /\ Len(handed) = 3
    /\ DisposalOf(0) = 3
    /\ DisposalOf(1) = 3
    /\ blitted[1] # handed[1]
    /\ blitted[2] # handed[2]
    /\ handed[3] = handed[1]

\* C30: the snapshot for frame i is captured after frame i - 1's disposal:
\* when frame i - 1 has disposal 2 and frame i has disposal 3, the canvas
\* entering frame i + 1 is white at every pixel of frame i - 1's rectangle
\* inside the canvas.
C30_SnapshotAfterDisposal ==
    \A k \in 3 .. Len(handed) :
        (reader.info[k - 2].disposal = 2 /\ reader.info[k - 1].disposal = 3) =>
            /\ handed[k] = handed[k - 1]
            /\ \A p \in RectInCanvas(reader.info[k - 2]) :
                  \A b \in PixelBytes(p) : handed[k][b] = 255

\* Frame 0 has disposal 2 and drew inside the canvas, frame 1 has disposal 3
\* and drew there too, and frame 2 has been handed the canvas.
C30_Witness ==
    /\ Len(handed) = 3
    /\ DisposalOf(0) = 2
    /\ DisposalOf(1) = 3
    /\ RectInCanvas(reader.info[1]) # {}
    /\ \E p \in RectInCanvas(reader.info[1]) :
          /\ p \in RectInCanvas(reader.info[2])
          /\ \E b \in PixelBytes(p) : blitted[2][b] # 255

\* The requests that have been given a filename.
Named == { r \in Reqs : reqs[r].filename # << >> }

\* C25 as stated: any two conversion requests are given different
\* filenames, and the file a request wrote and has not yet cleaned up is
\* still its own: no other request has written over it.
C25_UniqueFilenames ==
    /\ \A q, r \in Named : q # r => reqs[q].filename # reqs[r].filename
    /\ \A r \in Pending :
          \A e \in disk :
              e.path = FilepathOf(reqs[r].filename) => e.by = r

\* C26 as stated: the file a request reported in videoUrl is on the disk
\* as long as that request's own timer is not due, a timer that has fired
\* leaves no file of its request behind, and no request ends other than
\* answered or cleaned up (a failing unlink is dropped).
C26_FileKeptUntilOwnTimer ==
    /\ \A r \in Pending :
          now < reqs[r].timerAt =>
              \E e \in disk : e.path = FilepathOf(reqs[r].filename)
    /\ \A r \in Reqs :
          reqs[r].pc = "cleaned" =>
              \A e \in disk : e.by # r
    /\ \A r \in Reqs :
          reqs[r].pc \in {"idle", "converting", "writing", "served",
                          "cleaned", "rejected", "failed"}

\* --------------------------------------- the frame after a disposal-2 reset

\* The pixels of the canvas.
CanvasPixels == (0 .. W - 1) \X (0 .. H - 1)

\* C31: when frame i (emitted as frames[k]) has disposal 2 and rectangle R,
\* the frame emitted for i + 1 is opaque white at every in-canvas pixel of R
\* outside frame i + 1's rectangle, and equal to frame i's emitted value at
\* every pixel outside R and outside frame i + 1's rectangle.
C31_FrameAfterReset ==
    \A k \in 1 .. Len(frames) - 1 :
        reader.info[k].disposal = 2 =>
            \A p \in CanvasPixels \ RectInCanvas(reader.info[k + 1]) :
                \A b \in PixelBytes(p) :
                    Content(k + 1)[b] =
                        IF p \in RectInCanvas(reader.info[k]) THEN 255
                        ELSE Content(k)[b]

\* Frame 1 has disposal 2, frame 2 has been emitted, and frame 2's blit left
\* unwritten a pixel of frame 1's rectangle, which frame 1 showed in another
\* colour, and a pixel outside it that frame 1 had written.
C31_Witness ==
    /\ Len(frames) >= 3
    /\ reader.info[2].disposal = 2
    /\ \E p \in RectInCanvas(reader.info[2]) \ RectInCanvas(reader.info[3]) :
          \E b \in PixelBytes(p) : Content(2)[b] # 255
    /\ \E p \in CanvasPixels \ (RectInCanvas(reader.info[2])
                                  \cup RectInCanvas(reader.info[3])) :
          \E b \in PixelBytes(p) : Content(2)[b] \notin {0, 255}

\* ------------------------------------------ disposal codes other than 2, 3

\* C32: a frame whose disposal code is neither 2 nor 3 (0, 1 or a reserved
\* code 4..7) leaves the canvas as its blit left it until the next frame's
\* blit and has no snapshot taken for it; the heap holds the canvas, the
\* emitted frames and one snapshot per frame of code 3, and nothing else;
\* and no disposal code makes the call throw.
C32_OtherCodesKeep ==
    /\ \A k \in Transitions :
          reader.info[k - 1].disposal \notin {2, 3} =>
              handed[k] = blitted[k - 1]
    /\ \A k \in 0 .. SnapshotStepsRun - 1 :
          DisposalOf(k) \notin {2, 3} =>
              \A n \in 1 .. Len(trace) : trace[n] # << "snapshot", k >>
    /\ Len(heap) = (IF pc = "start" THEN 0 ELSE 1) + Len(frames)
                       + Cardinality(TakenFor)
    /\ pc # "threw"
    /\ thrown = << >>

\* A call has returned three frames whose first two have reserved codes,
\* one of them 6 and one 7, the blits having changed the canvas each time;
\* no snapshot was taken.
C32_Witness ==
    /\ pc = "done"
    /\ reader.numFrames = 3
    /\ { DisposalOf(0), DisposalOf(1) } = {6, 7}
    /\ DisposalOf(2) = 4
    /\ handed[2] = blitted[1]
    /\ handed[3] = blitted[2]
    /\ blitted[1] # blitted[2]
    /\ previousCanvasBuffer = Null
    /\ Len(heap) = 4

\* ------------------------------------------------ the web worker protocol

\* The positions in `posted` of the messages of type t that the listener
\* invocation for message m posted.
PostedBy(m, t) ==
    { n \in 1 .. Len(posted) : posted[n].by = m /\ posted[n].type = t }

\* The positions of the terminal messages of the invocation for m.
TerminalBy(m) == PostedBy(m, "success") \cup PostedBy(m, "error")

\* C33: 'ready' is posted once, first, when the worker's script has run;
\* every delivered message gets one 'progress' carrying its id; while its
\* conversion is pending it has no terminal message, and once the conversion
\* has settled it has exactly one, posted after its 'progress', carrying
\* its id, 'success' if the conversion resolved and 'error' if it rejected;
\* nothing else is posted; and whatever the other requests' outcomes, a
\* pending conversion can still be answered and the next message can still
\* be delivered.
C33_WorkerProtocol ==
    /\ workerPc = "loading" => posted = << >>
    /\ workerPc = "listening" =>
          /\ posted[1] = ReadyMessage
          /\ \A n \in 2 .. Len(posted) : posted[n].type # "ready"
    /\ \A n \in 2 .. Len(posted) :
          /\ posted[n].by \in Messages
          /\ posted[n].type \in {"progress", "success", "error"}
          /\ posted[n].id = requests[posted[n].by].id
    /\ \A m \in Messages :
          /\ requests[m].pc = "unsent" =>
                PostedBy(m, "progress") \cup TerminalBy(m) = {}
          /\ requests[m].pc # "unsent" =>
                Cardinality(PostedBy(m, "progress")) = 1
          /\ requests[m].pc = "converting" =>
                /\ TerminalBy(m) = {}
                /\ ENABLED Resolves(m)
                /\ ENABLED Rejects(m)
          /\ requests[m].pc = "answered" =>
                /\ Cardinality(TerminalBy(m)) = 1
                /\ \A t \in TerminalBy(m) :
                      /\ \A n \in PostedBy(m, "progress") : n < t
                      /\ posted[t].type = "success"
                            <=> requests[m].outcome = "resolved"
                      /\ posted[t].type = "error"
                            <=> requests[m].outcome = "rejected"
          /\ (workerPc = "listening" /\ requests[m].pc = "unsent"
                /\ \A n \in Messages : n < m => requests[n].pc # "unsent") =>
                ENABLED Receive(m)

\* Three requests were in flight together, the first two carrying different
\* ids; the second was answered first, with 'error'; the first was answered
\* after it with 'success', and the third, delivered after the error, was
\* answered too.
C33_Witness ==
    /\ \A m \in Messages : requests[m].pc = "answered"
    /\ requests[1].id # requests[2].id
    /\ requests[1].outcome = "resolved"
    /\ requests[2].outcome = "rejected"
    /\ requests[3].outcome = "resolved"
    /\ \E e \in PostedBy(2, "error") :
          /\ \A q \in PostedBy(1, "progress") : q < e
          /\ \A t \in PostedBy(1, "success") : e < t
          /\ \A q \in PostedBy(3, "progress") : e < q
    /\ PostedBy(3, "success") # {}

\* ------------------------------------------------- the video download route

\* A name of the form gif2vid-<one or more digits>.mp4.
IsVideoName(name) ==
    LET n == Len(name)
    IN  /\ n > Len(Gif2vidDash) + Len(DotMp4)
        /\ SubSeq(name, 1, Len(Gif2vidDash)) = Gif2vidDash
        /\ SubSeq(name, n - Len(DotMp4) + 1, n) = DotMp4
        /\ \A k \in Len(Gif2vidDash) + 1 .. n - Len(DotMp4) :
              name[k] \in Digit

\* A name with a path separator or a `..` in it.
HasPathParts(name) ==
    \/ \E k \in 1 .. Len(name) : name[k] = "/"
    \/ \E k \in 1 .. Len(name) - 1 : name[k] = "." /\ name[k + 1] = "."

\* When a request has arrived: readFile has been called if and only if the
\* requested name has the form gif2vid-<digits>.mp4, and then once, with
\* that name under /tmp; any other name is answered 400 'Invalid filename'.
GetChecked ==
    get.pc # "idle" =>
        /\ get.read # << >> <=> IsVideoName(get.filename)
        /\ get.read # << >> => get.read = << << "/tmp", get.filename >> >>
        /\ ~IsVideoName(get.filename) =>
              /\ get.pc = "answered"
              /\ get.status = 400
              /\ get.body = "Invalid filename"
        /\ HasPathParts(get.filename) => get.status = 400 /\ get.read = << >>
        /\ get.pc = "answered" => get.answers = 1
        /\ get.pc = "reading" => get.answers = 0

\* The step that answers a request whose name was read: 404 if the file is
\* missing when the read settles, the file otherwise.
GetAnswered ==
    (get.pc = "reading" /\ get'.pc = "answered") =>
        IF \A e \in disk : e.path # << "/tmp", get.filename >>
        THEN get'.status = 404 /\ get'.body = "Video not found"
        ELSE get'.status = 200 /\ get'.body = << "/tmp", get.filename >>

\* C34: the video route calls readFile only for a file name of the form
\* gif2vid-<digits>.mp4, and then for that name in /tmp; every other name,
\* those with a path separator or `..` included, is answered 400 'Invalid
\* filename' with no file system call; a name of that form whose file is
\* missing is answered 404.
C34_OnlyVideoNamesRead == [](GetChecked) /\ [][GetAnswered]_vars

\* A request for ../gif2vid-0.mp4, a name that ends like a stored video's,
\* was answered 400 without a read while that video was stored.
C34_Witness ==
    /\ get.pc = "answered"
    /\ get.filename = << ".", ".", "/" >> \o Gif2vidDash \o << "0" >> \o DotMp4
    /\ get.status = 400
    /\ get.read = << >>
    /\ \E e \in disk : e.path = << "/tmp", Gif2vidDash \o << "0" >> \o DotMp4 >>

\* ------------------------------------------ one response for every request

\* The request provided no GIF file: no file at all, or, at the Next.js
\* route, a file whose type does not contain 'gif'.
NoGifFile(req) ==
    \/ req.form \in {"unparsable", "absent", "text"}
    \/ req.route = "next" /\ req.form = "other"

\* C35 as stated: every request is answered once; a request without a GIF
\* file is answered 400, the converter not invoked, no file written and no
\* timer set; 500 is the answer when the conversion or the write failed,
\* with no timer set; every other request is answered with success and the
\* URL of the file it wrote.
C35_OneResponsePerRequest ==
    \A r \in Reqs :
        LET req == reqs[r]
        IN  /\ req.pc \in {"idle", "converting", "writing"} =>
                  req.responses = 0
            /\ req.pc \in {"rejected", "failed", "served", "cleaned"} =>
                  req.responses = 1
            /\ (req.pc # "idle" /\ NoGifFile(req)) =>
                  /\ req.status = 400
                  /\ ~req.invoked /\ ~req.wrote /\ req.timers = 0
            /\ req.status = 400 => NoGifFile(req)
            /\ req.status = 500 =>
                  /\ req.invoked
                  /\ req.timers = 0
            /\ (req.responses = 1 /\ req.status \notin {400, 500}) =>
                  /\ req.status = 200
                  /\ req.wrote /\ req.timers = 1
                  /\ req.videoUrl[2] = req.filename
                  /\ req.filename # << >>

\* ------------------------------------------------- the input normalization

\* Once the argument is normalized: the Uint8Array shows exactly the GIF's
\* bytes, the parser is constructed over them, the argument still shows
\* them; and a second call with the same bytes supplied in another way has
\* the outcome of the first.
InputKept ==
    /\ BytesOf(gifBuffer) = gif
    /\ pc # "entry" =>
          /\ BytesOf(uint8Array) = gif
          /\ reader = ParserOf(gif)
    /\ (run = 2 /\ pc \in {"done", "threw"}) =>
          /\ Outcome = first[1].outcome
          /\ reader = first[1].reader

\* The normalization writes to no ArrayBuffer and leaves the argument as
\* it is.
InputUntouched ==
    (pc = "entry" /\ pc' # "entry") =>
        /\ gifBuffer' = gifBuffer
        /\ \A id \in 1 .. Len(memory) : memory'[id] = memory[id]

\* C36: whichever way the same GIF bytes are supplied (Uint8Array,
\* ArrayBuffer, Node Buffer, another typed-array view with its byteOffset
\* and byteLength), the parser is constructed over exactly those bytes,
\* decodeGif returns the same result, and the normalization does not write
\* to the input.
C36_NormalizationKeepsBytes == [](InputKept) /\ [][InputUntouched]_vars

\* A two-frame GIF was decoded from an ArrayBuffer, and then again from a
\* typed-array view that begins one byte into a larger ArrayBuffer and ends
\* one byte before its end; both calls returned two frames.
C36_Witness ==
    /\ run = 2
    /\ pc = "done"
    /\ first[1].input.kind = "ArrayBuffer"
    /\ gifBuffer.kind = "TypedArray"
    /\ gifBuffer.byteOffset = 1
    /\ Len(memory[gifBuffer.buffer]) = Len(gif) + 2
    /\ Len(result[1].frames) = 2
    /\ Len(first[1].outcome.value[1].frames) = 2


====
